---- MODULE Spec2Model ----
(***************************************************************************)
(* Hybrid retrieval and score fusion of ai_search/app/services:            *)
(* SearchService (search_service.py) and the fuser (scoring.py).           *)
(*                                                                         *)
(* Numbers.  Scores are integers in units of 1/ScoreUnit, weights are      *)
(* integers in units of 1/WeightUnit.  A fused score is kept as an exact   *)
(* fraction final/fden; all rows of one fuse call share fden, so the sort  *)
(* compares numerators.  Floating point rounding is not modelled.         *)
(***************************************************************************)
EXTENDS Integers, Sequences, FiniteSets, TLC

\* ------------------------------------------------------------------ bounds
NumClients == 2      \* concurrent callers of one SearchService (Spec)
RaceClients == 3     \* concurrent callers of one SearchService (SpecRace)
MaxScore == 2        \* largest raw score of a hit, in units of 1/ScoreUnit
MaxPage == 2         \* largest page_index requested
MaxPageSize == 2     \* largest page_size requested
MaxRows == 3         \* most rows of one fuse call (SpecRows)
MaxHits == 3         \* most chunk hits / catalog entries of one fuse call (SpecFuse)
SampleThreshold == 60  \* a score_threshold above 0, in units of 1/ThresholdUnit

\* ------------------------------------------------------- program constants
ScoreUnit == 2       \* 1.0 of a score
WeightUnit == 10     \* 1.0 of a weight
w_semantic == 5
w_bm25 == 3
w_vector == 1
w_business == 1
aw_semantic == 6
aw_bm25 == 4
aw_vector == 0
aw_business == 0
max_workers == 4
ThresholdUnit == 100  \* 1.0 of score_threshold
FuzzyMin == 2         \* 0.2, in units of 1/10

ArticleWeights ==
  [semantic |-> w_semantic, bm25 |-> w_bm25, vector |-> w_vector, business |-> w_business]

AuthorWeights ==
  [semantic |-> aw_semantic, bm25 |-> aw_bm25, vector |-> aw_vector, business |-> aw_business]

\* ----------------------------------------------------------------- helpers
Max2(a, b) == IF a >= b THEN a ELSE b

Min2(a, b) == IF a <= b THEN a ELSE b

RECURSIVE SeqMaxOf(_)
SeqMaxOf(vs) ==
  IF Len(vs) = 1 THEN vs[1] ELSE Max2(vs[1], SeqMaxOf(Tail(vs)))

RECURSIVE SeqMinOf(_)
SeqMinOf(vs) ==
  IF Len(vs) = 1 THEN vs[1] ELSE Min2(vs[1], SeqMinOf(Tail(vs)))

RECURSIVE SeqSumOf(_)
SeqSumOf(vs) == IF vs = <<>> THEN 0 ELSE Head(vs) + SeqSumOf(Tail(vs))

Ids(rows) == [i \in DOMAIN rows |-> rows[i].id]

NoDup(s) == \A i, j \in DOMAIN s : i # j => s[i] # s[j]

\* rows[start:end] of Python, start and end 0-based, clipped to the list
Slice(rows, start, end) ==
  IF start >= Len(rows) THEN <<>>
  ELSE SubSeq(rows, start + 1, Min2(end, Len(rows)))

\* list.sort(key=key, reverse=True) and sorted(..., reverse=True): stable,
\* descending; equal keys keep their input order
SortedDescBy(s, key(_)) ==
  LET pos(i) == 1 + Cardinality({j \in DOMAIN s :
                      \/ key(s[j]) > key(s[i])
                      \/ key(s[j]) = key(s[i]) /\ j < i})
  IN [p \in DOMAIN s |-> s[CHOOSE i \in DOMAIN s : pos(i) = p]]

\* a variant that sorts ascending and reverses: equal keys swap their order
SortedByReversing(rows) ==
  SortedDescBy([i \in DOMAIN rows |-> rows[Len(rows) + 1 - i]], LAMBDA r : r.final)

SortedDesc(rows) == SortedDescBy(rows, LAMBDA r : r.final)

\* ------------------------------------------------------------------ fuser
\* _minmax: (min, max) of the values, (0.0, 1.0) when empty or all equal
MinMax(vs) ==
  IF vs = <<>> THEN <<0, ScoreUnit>>
  ELSE IF SeqMinOf(vs) = SeqMaxOf(vs) THEN <<0, ScoreUnit>>
  ELSE <<SeqMinOf(vs), SeqMaxOf(vs)>>

\* _norm as the fraction <<numerator, denominator>>
Norm(v, bounds) ==
  IF bounds[1] = bounds[2] THEN <<1, 1>>
  ELSE <<v - bounds[1], bounds[2] - bounds[1]>>

SemanticAvailable(rows) == \E i \in DOMAIN rows : rows[i].semantic > 0

\* the adjusted weights of _fuse_scores
AdjustedWeights(rows, entity_type, w) ==
  IF ~SemanticAvailable(rows)
  THEN [semantic |-> 0, bm25 |-> w.bm25,
        vector |-> w.vector + w.semantic, business |-> w.business]
  ELSE w

\* the normalised lexical score of one row, as a fraction
NormBm25(r, rows) ==
  LET bm25s == [i \in DOMAIN rows |-> rows[i].bm25]
      bm25_max == SeqMaxOf(bm25s)
  IN IF ~SemanticAvailable(rows) /\ bm25_max > 0
     THEN <<r.bm25, bm25_max>>
     ELSE Norm(r.bm25, MinMax(bm25s))

\* a variant of _fuse_scores that adds to the final score a row already has
FuseScoresAccumulating(rows, entity_type, w) ==
  IF rows = <<>> THEN <<>>
  ELSE
    LET wa == AdjustedWeights(rows, entity_type, w)
        den == NormBm25(rows[1], rows)[2]
        scored == [i \in DOMAIN rows |->
          [rows[i] EXCEPT
            !.final = rows[i].final * ((WeightUnit * ScoreUnit * den) \div rows[i].fden)
                      + den * (wa.semantic * rows[i].semantic
                               + wa.vector * rows[i].vector
                               + wa.business * rows[i].business)
                      + ScoreUnit * wa.bm25 * NormBm25(rows[i], rows)[1],
            !.fden = WeightUnit * ScoreUnit * den]]
    IN SortedDesc(scored)

\* _fuse_scores: every row gets final/fden, then the stable descending sort
FuseScores(rows, entity_type, w) ==
  IF rows = <<>> THEN <<>>
  ELSE
    LET wa == AdjustedWeights(rows, entity_type, w)
        den == NormBm25(rows[1], rows)[2]
        scored == [i \in DOMAIN rows |->
          [rows[i] EXCEPT
            !.final = den * (wa.semantic * rows[i].semantic
                             + wa.vector * rows[i].vector
                             + wa.business * rows[i].business)
                      + ScoreUnit * wa.bm25 * NormBm25(rows[i], rows)[1],
            !.fden = WeightUnit * ScoreUnit * den]]
    IN SortedDesc(scored)

fuse_articles(rows) == FuseScores(rows, "article", ArticleWeights)

fuse_authors(rows) == FuseScores(rows, "author", AuthorWeights)

\* ------------------------------------------------------- search requests
\* A row of the fuser.  doc is the id of the hydrated document or "None".
Row(id, doc, bm25, semantic, vector, business) ==
  [id |-> id, doc |-> doc, bm25 |-> bm25, semantic |-> semantic,
   vector |-> vector, business |-> business, final |-> 0, fden |-> 1]

\* page_index and page_size are Optional[int]; None is modelled as NoPage
NoPage == 0 - 1

Paginated(page_index, page_size) == page_index # NoPage /\ page_size # NoPage

\* a variant of offset that counts pages from 1
OffsetOneBased(page_index, page_size) ==
  IF Paginated(page_index, page_size) THEN (page_index + 1) * page_size ELSE 0

\* offset and search_k of _search_articles_planned / _search_authors_planned
Offset(page_index, page_size) ==
  IF Paginated(page_index, page_size) THEN page_index * page_size ELSE 0

\* a variant of search_k without the floor of 2*k
SearchKWithoutFloor(k, page_index, page_size) ==
  IF Paginated(page_index, page_size)
  THEN page_index * page_size + page_size
  ELSE k

SearchK(k, page_index, page_size) ==
  IF Paginated(page_index, page_size)
  THEN Max2(page_index * page_size + page_size, k * 2)
  ELSE k

\* "top" of the text sub-query: int(search_k*1.1), int(search_k*1.3) when the
\* flag was read false
TextTop(search_k, mode) ==
  IF mode = "simple13" THEN (13 * search_k) \div 10 ELSE (11 * search_k) \div 10

\* "top" of the chunk sub-query: int(search_k * 4)
ChunkTop(search_k) == search_k * 4

\* the search engine: the first "top" documents of the index in rank order;
\* a semantic query ranks by reranker score and returns it with each hit
EngineSearch(index, query_type, top) ==
  LET ranked == IF query_type = "semantic"
                THEN SortedDescBy(index, LAMBDA d : d.reranker)
                ELSE index
      hits == SubSeq(ranked, 1, Min2(top, Len(ranked)))
  IN [i \in DOMAIN hits |->
       [hits[i] EXCEPT !.reranker = IF query_type = "semantic" THEN @ ELSE 0]]

\* the value of a score field that a hit does not carry
Absent == 0 - 1

\* d.get(key, default)
Get(value, default) == IF value = Absent THEN default ELSE value

\* d["@search.score"] finds the key in every hit
HasScores(hits) == \A i \in DOMAIN hits : hits[i].score # Absent

\* rows_local of run_text_search
TextRows(hits) ==
  [i \in DOMAIN hits |->
    Row(hits[i].id, hits[i].id, hits[i].score, Get(hits[i].reranker, 0), 0,
        hits[i].business)]

\* a dict built from rows in order: keys in order of first insertion, the
\* value of a key is the last row inserted under it
IdToRow(rows) ==
  LET first == SelectSeq([i \in DOMAIN rows |-> i],
                 LAMBDA i : \A j \in 1..(i - 1) : rows[j].id # rows[i].id)
      last(id) == CHOOSE i \in DOMAIN rows :
                    /\ rows[i].id = id
                    /\ \A j \in DOMAIN rows : rows[j].id = id => j <= i
  IN [n \in DOMAIN first |-> rows[last(rows[first[n]].id)]]

\* a variant of parent_scores that adds the chunk scores up
ParentScoresSum(vec_res) ==
  LET withParent == SelectSeq(vec_res, LAMBDA d : d.parent_id # "None")
      first == SelectSeq([i \in DOMAIN withParent |-> i],
                 LAMBDA i : \A j \in 1..(i - 1) :
                    withParent[j].parent_id # withParent[i].parent_id)
      chunkScores(pid) ==
        LET mine == SelectSeq(withParent, LAMBDA d : d.parent_id = pid)
        IN [i \in DOMAIN mine |-> mine[i].score]
  IN [n \in DOMAIN first |->
       [id |-> withParent[first[n]].parent_id,
        vector |-> SeqSumOf(chunkScores(withParent[first[n]].parent_id))]]

\* parent_scores: one entry per parent_id in order of first chunk hit, its
\* vector score the highest score of its chunks; hits without parent_id skipped
ParentScores(vec_res) ==
  LET withParent == SelectSeq(vec_res, LAMBDA d : d.parent_id # "None")
      first == SelectSeq([i \in DOMAIN withParent |-> i],
                 LAMBDA i : \A j \in 1..(i - 1) :
                    withParent[j].parent_id # withParent[i].parent_id)
      chunkScores(pid) ==
        LET mine == SelectSeq(withParent, LAMBDA d : d.parent_id = pid)
        IN [i \in DOMAIN mine |-> Get(mine[i].score, 0)]
  IN [n \in DOMAIN first |->
       [id |-> withParent[first[n]].parent_id,
        vector |-> SeqMaxOf(chunkScores(withParent[first[n]].parent_id))]]

\* the merge of parent_scores into id_to_row: a text row gets the larger vector
\* score, a parent without text row becomes a placeholder row
MergeVector(rows, vec_res) ==
  LET id_to_row == IdToRow(rows)
      parents == ParentScores(vec_res)
      known(pid) == \E i \in DOMAIN id_to_row : id_to_row[i].id = pid
      pvec(pid) == LET n == CHOOSE n \in DOMAIN parents : parents[n].id = pid
                   IN parents[n].vector
      merged == [i \in DOMAIN id_to_row |->
                  IF \E n \in DOMAIN parents : parents[n].id = id_to_row[i].id
                  THEN [id_to_row[i] EXCEPT
                          !.vector = Max2(@, pvec(id_to_row[i].id))]
                  ELSE id_to_row[i]]
      fresh == SelectSeq(parents, LAMBDA e : ~known(e.id))
  IN merged \o [n \in DOMAIN fresh |->
                 Row(fresh[n].id, "None", 0, 0, fresh[n].vector, 0)]

\* hydration of the rows without document from the looked-up documents
Hydrate(id_to_row, index) ==
  [i \in DOMAIN id_to_row |->
    IF id_to_row[i].doc = "None"
       /\ \E n \in DOMAIN index : index[n].id = id_to_row[i].id
    THEN LET n == CHOOSE n \in DOMAIN index : index[n].id = id_to_row[i].id
         IN [id_to_row[i] EXCEPT !.doc = index[n].id,
                                 !.business = index[n].business]
    ELSE id_to_row[i]]

MissingParentIds(id_to_row) ==
  {id_to_row[i].id : i \in {j \in DOMAIN id_to_row : id_to_row[j].doc = "None"}}

\* a variant of _apply_score_threshold that does not look at the enable switch
ApplyScoreThresholdAlways(results, cfg) ==
  IF cfg.score_threshold <= 0 THEN results
  ELSE SelectSeq(results,
         LAMBDA r : r.final * ThresholdUnit >= cfg.score_threshold * r.fden)

\* _apply_score_threshold; score_threshold is in units of 1/ThresholdUnit
ApplyScoreThreshold(results, cfg) ==
  IF ~cfg.enable_score_filtering THEN results
  ELSE IF cfg.score_threshold <= 0 THEN results
  ELSE SelectSeq(results,
         LAMBDA r : r.final * ThresholdUnit >= cfg.score_threshold * r.fden)

\* the response built from the fused and filtered list; pagination is <<>> for
\* None and <<p>> for the dict p
Respond(all_fused_results, normalized_query, search_type, k, page_index, page_size) ==
  IF Paginated(page_index, page_size)
  THEN LET total_results == Len(all_fused_results)
           start_idx == Offset(page_index, page_size)
           end_idx == start_idx + page_size
       IN [status |-> "ok", error |-> "",
           results |-> Slice(all_fused_results, start_idx, end_idx),
           normalized_query |-> normalized_query,
           pagination |-> <<[page_index |-> page_index,
                             page_size |-> page_size,
                             total_results |-> total_results,
                             total_pages |-> (total_results + page_size - 1) \div page_size,
                             has_next |-> end_idx < total_results,
                             has_previous |-> page_index > 0]>>,
           search_type |-> search_type]
  ELSE [status |-> "ok", error |-> "",
        results |-> Slice(all_fused_results, 0, k),
        normalized_query |-> normalized_query,
        pagination |-> <<>>,
        search_type |-> search_type]

\* the rows _search_articles_planned hands to fuse_articles
ArticleRows(rows, vec_res, index) == Hydrate(MergeVector(rows, vec_res), index)

\* all_fused_results of _search_articles_planned, after the threshold filter
ArticlesFused(rows, vec_res, index, cfg) ==
  ApplyScoreThreshold(fuse_articles(ArticleRows(rows, vec_res, index)), cfg)

\* _search_articles_planned after the join
ArticlesResponse(rows, vec_res, index, cfg, k, page_index, page_size) ==
  Respond(ArticlesFused(rows, vec_res, index, cfg),
          "q", "articles", k, page_index, page_size)

\* the response of a request that raised
Failure(error) ==
  [status |-> "error", error |-> error, results |-> <<>>, normalized_query |-> "",
   pagination |-> <<>>, search_type |-> ""]

NoResponse ==
  [status |-> "none", error |-> "", results |-> <<>>, normalized_query |-> "",
   pagination |-> <<>>, search_type |-> ""]

\* the early return of search, search_articles and search_authors for a plan
\* that is not meaningful
UnmeaningfulResponse(entry, plan, page_index, page_size) ==
  [status |-> "ok", error |-> "",
   results |-> <<>>,
   normalized_query |-> "advisory",
   pagination |-> IF Paginated(page_index, page_size)
                  THEN <<[page_index |-> page_index, page_size |-> page_size,
                          total_results |-> 0, total_pages |-> 0,
                          has_next |-> FALSE, has_previous |-> FALSE]>>
                  ELSE <<>>,
   search_type |-> IF entry = "search_articles" THEN "articles"
                   ELSE IF entry = "search_authors" THEN "authors"
                   ELSE plan.search_type]

\* the planned search a meaningful request is routed to
Route(entry, plan) ==
  IF entry = "search_articles" THEN "articles"
  ELSE IF entry = "search_authors" THEN "authors"
  ELSE IF plan.search_type = "authors" THEN "authors"
  ELSE "articles"

\* _fuzzy_match_authors: the candidates scoring above 0.2, best first, at most
\* k of them.  match is the combined score of the candidate's name against the
\* query, name is FALSE for a candidate without full_name.
FuzzyMatchAuthors(all_authors, k) ==
  LET matches == SelectSeq(all_authors,
                   LAMBDA a : a.name /\ a.match * 10 > FuzzyMin * ScoreUnit)
      sorted == SortedDescBy(matches, LAMBDA a : a.match)
  IN Slice(sorted, 0, k)

\* _fuzzy_match_authors raises ZeroDivisionError: for a query and a name that
\* both normalise to the empty string, "query_normalized in name_normalized"
\* holds and substring_score divides by len(name_normalized) = 0.  query_len
\* and norm_len are the lengths after _normalize_text.
FuzzyRaises(query_len, all_authors) ==
  /\ query_len = 0
  /\ \E i \in DOMAIN all_authors : all_authors[i].name /\ all_authors[i].norm_len = 0

\* the rows _search_authors_planned hands to fuse_authors
AuthorRows(fuzzy_matches) ==
  [i \in DOMAIN fuzzy_matches |->
    Row(fuzzy_matches[i].id, fuzzy_matches[i].id, fuzzy_matches[i].match, 0, 0, 0)]

\* all_fused_results of _search_authors_planned, after the threshold filter
AuthorsFused(all_authors, cfg, search_k) ==
  ApplyScoreThreshold(
    fuse_authors(AuthorRows(FuzzyMatchAuthors(all_authors, search_k))), cfg)

\* _search_authors_planned
AuthorsResponse(all_authors, cfg, k, page_index, page_size) ==
  Respond(AuthorsFused(all_authors, cfg, SearchK(k, page_index, page_size)),
          "q", "authors", k, page_index, page_size)

\* ------------------------------------------------------------------ state
VARIABLES
  semantic_supported,  \* search engine: semantic queries were accepted at start-up
  articles_parent,     \* search engine: the parent index, in rank order
  articles_chunks,     \* search engine: the chunk hits of the query, in rank order
  authors,             \* search engine: the author catalog
  settings,            \* SETTINGS: enable_score_filtering, score_threshold
  session,             \* the callers: who calls, how often, with which k, page_size
  semantic_enabled,    \* SearchService.semantic_enabled
  client,              \* client[c]: the request thread of caller c
  text_future,         \* text_future[c]: run_text_search of c's request
  vector_future,       \* vector_future[c]: run_vector_search of c's request
  queue,               \* work queue of SearchService.executor
  pages,               \* history: the paginated responses, by search and page
  fusion               \* a fuse call on its own: inputs and result

vars == <<semantic_supported, articles_parent, articles_chunks, authors, settings,
          session, semantic_enabled, client, text_future, vector_future, queue,
          pages, fusion>>

backend == <<articles_parent, articles_chunks, authors, settings, session>>

Entries == {"search", "search_articles", "search_authors"}

\* the plans of plan_query that have every field; normalized_query is "q" for
\* the planner's query, "raw" for the user's query passed through and "missing"
\* for a plan without the key
Plans ==
  [isMeaningful : BOOLEAN, search_type : {"articles", "authors", "unmeaningful"},
   normalized_query : {"q"}, search_parameters : {"given"}]

\* plan["normalized_query"] of the planned searches finds the key
HasQuery(plan) == plan.normalized_query # "missing"

\* the calls a request made, and those of its calls whose exception the
\* service caught
NoCalls ==
  [text |-> 0, vector |-> 0, embed |-> 0, scan |-> 0, batch |-> 0, point |-> 0,
   caught |-> {}]

IdleClient ==
  [pc |-> "idle", k |-> 0, page_index |-> NoPage, page_size |-> NoPage,
   resp |-> NoResponse, calls |-> NoCalls]

\* mode: the query type the task last issued; late: a semantic query issued
\* after the engine had already rejected one
NoTextFuture == [pc |-> "none", mode |-> "", late |-> FALSE, rows |-> <<>>, error |-> ""]

NoVectorFuture == [pc |-> "none", res |-> <<>>, error |-> ""]

NoPages == [s \in {"articles", "authors"} |-> [p \in 0..MaxPage |-> <<>>]]

NoFusion == [stage |-> "none"]

TextRunning == {"semantic", "rejected", "simple13", "simple11"}

\* a variant in which a worker that has run a task is not given back
BusyNeverReleased ==
  Cardinality({c \in DOMAIN client : text_future[c].pc \notin {"none", "queued"}})
  + Cardinality({c \in DOMAIN client : vector_future[c].pc \notin {"none", "queued"}})

\* worker threads of the executor that are running a task
Busy ==
  Cardinality({c \in DOMAIN client : text_future[c].pc \in TextRunning})
  + Cardinality({c \in DOMAIN client : vector_future[c].pc = "running"})

\* the text tasks whose semantic query the engine has rejected
Rejected ==
  {c \in DOMAIN client : \/ text_future[c].pc = "rejected"
                   \/ text_future[c].mode = "simple11"
                   \/ text_future[c].error = "SemanticQueriesNotAvailable"}

SearchKOf(c) == SearchK(client[c].k, client[c].page_index, client[c].page_size)

\* __init__: the flag is the result of the one-shot probe _test_semantic_search
ProbeResults(supported) == IF supported THEN {TRUE, FALSE} ELSE {FALSE}

\* ---------------------------------------------------------------- actions
\* a caller sends the session's query: its first request, or after a response
\* the request for another page once the tasks of the earlier one have ended
CanStart(c, page_index) ==
  /\ \/ client[c].pc = "idle"
     \/ client[c].pc = "done" /\ session.page_size # NoPage
  /\ text_future[c].pc \in {"none", "done", "failed"}
  /\ vector_future[c].pc \in {"none", "done", "failed"}
  /\ page_index \in (IF session.page_size = NoPage THEN {NoPage} ELSE 0..MaxPage)

\* a variant in which only search() has the early return
ShortCircuitsInSearchOnly(entry, plan) == entry = "search" /\ ~plan.isMeaningful

\* "if not plan.get("isMeaningful", True)" of the three entry points
ShortCircuits(entry, plan) == ~plan.isMeaningful

Log(search_type, page_index, resp, full) ==
  IF page_index = NoPage THEN pages
  ELSE [pages EXCEPT ![search_type][page_index] =
          <<[results |-> Ids(resp.results), full |-> Ids(full),
             pagination |-> resp.pagination[1]]>>]

Started(pc, page_index, resp, calls) ==
  [pc |-> pc, k |-> session.k, page_index |-> page_index,
   page_size |-> session.page_size, resp |-> resp, calls |-> calls]

\* search / search_articles / search_authors, plan not meaningful
Unmeaningful(c, page_index) ==
  /\ CanStart(c, page_index)
  /\ ShortCircuits(session.entry, session.plan)
  /\ client' = [client EXCEPT ![c] =
       Started("done", page_index,
               UnmeaningfulResponse(session.entry, session.plan, page_index,
                                    session.page_size), NoCalls)]
  /\ text_future' = [text_future EXCEPT ![c] = NoTextFuture]
  /\ vector_future' = [vector_future EXCEPT ![c] = NoVectorFuture]
  /\ UNCHANGED <<semantic_supported, backend, semantic_enabled, queue, pages, fusion>>

\* _search_authors_planned; _get_all_authors returns [] when the scan raises
SearchAuthors(c, page_index, scan_ok) ==
  /\ CanStart(c, page_index)
  /\ ~ShortCircuits(session.entry, session.plan)
  /\ HasQuery(session.plan)
  /\ Route(session.entry, session.plan) = "authors"
  /\ LET all_authors == IF scan_ok THEN authors ELSE <<>>
         resp == AuthorsResponse(all_authors, settings, session.k, page_index,
                                 session.page_size)
         full == AuthorsFused(all_authors, settings,
                              SearchK(session.k, page_index, session.page_size))
     IN /\ client' = [client EXCEPT ![c] =
             Started("done", page_index, resp,
                     [NoCalls EXCEPT !.scan = 1,
                                     !.caught = IF scan_ok THEN {} ELSE {"scan"}])]
        /\ pages' = IF scan_ok THEN Log("authors", page_index, resp, full) ELSE pages
  /\ text_future' = [text_future EXCEPT ![c] = NoTextFuture]
  /\ vector_future' = [vector_future EXCEPT ![c] = NoVectorFuture]
  /\ UNCHANGED <<semantic_supported, backend, semantic_enabled, queue, fusion>>

\* _search_articles_planned up to the two executor.submit calls
SubmitArticles(c, page_index) ==
  /\ CanStart(c, page_index)
  /\ ~ShortCircuits(session.entry, session.plan)
  /\ HasQuery(session.plan)
  /\ Route(session.entry, session.plan) = "articles"
  /\ client' = [client EXCEPT ![c] =
       Started("join_text", page_index, NoResponse, NoCalls)]
  /\ text_future' = [text_future EXCEPT ![c] = [NoTextFuture EXCEPT !.pc = "queued"]]
  /\ vector_future' = [vector_future EXCEPT ![c] = [NoVectorFuture EXCEPT !.pc = "queued"]]
  /\ queue' = queue \o << <<c, "text">>, <<c, "vector">> >>
  /\ UNCHANGED <<semantic_supported, backend, semantic_enabled, pages, fusion>>

\* a variant of run_text_search that does not read the flag
TextModeIgnoringFlag(flag) == "semantic"

\* a planned search reads plan["normalized_query"] before its try block: a
\* plan without the key makes the request raise KeyError
PlanKeyError(c, page_index) ==
  /\ CanStart(c, page_index)
  /\ ~ShortCircuits(session.entry, session.plan)
  /\ ~HasQuery(session.plan)
  /\ client' = [client EXCEPT ![c] =
       Started("done", page_index, Failure("KeyError"), NoCalls)]
  /\ text_future' = [text_future EXCEPT ![c] = NoTextFuture]
  /\ vector_future' = [vector_future EXCEPT ![c] = NoVectorFuture]
  /\ UNCHANGED <<semantic_supported, backend, semantic_enabled, queue, pages, fusion>>

\* the query mode run_text_search picks from the flag
TextMode(flag) == IF flag THEN "semantic" ELSE "simple13"

\* a worker takes run_text_search: it reads the flag and issues the query
TextStart(c) ==
  /\ queue # <<>>
  /\ Head(queue) = <<c, "text">>
  /\ Busy < max_workers
  /\ queue' = Tail(queue)
  /\ text_future' = [text_future EXCEPT
       ![c].pc = TextMode(semantic_enabled),
       ![c].mode = TextMode(semantic_enabled),
       ![c].late = TextMode(semantic_enabled) = "semantic" /\ Rejected # {}]
  /\ client' = [client EXCEPT ![c].calls.text = @ + 1]
  /\ UNCHANGED <<semantic_supported, backend, semantic_enabled, vector_future,
                 pages, fusion>>

\* the hits of the query the text task of c has issued
TextHits(c) ==
  EngineSearch(articles_parent,
               IF text_future[c].pc = "semantic" THEN "semantic" ELSE "simple",
               TextTop(SearchKOf(c), text_future[c].pc))

\* the engine answers the query and a hit has no "@search.score":
\* d["@search.score"] raises KeyError while rows_local is built
TextKeyError(c) ==
  /\ text_future[c].pc \in {"semantic", "simple13", "simple11"}
  /\ ~HasScores(TextHits(c))
  /\ text_future' = [text_future EXCEPT ![c].pc = "failed", ![c].error = "KeyError"]
  /\ UNCHANGED <<semantic_supported, backend, semantic_enabled, client,
                 vector_future, queue, pages, fusion>>

\* the engine answers the semantic query and the hits are iterated into
\* rows_local; whether the engine accepts semantic queries may change at any time
TextSemanticOk(c) ==
  /\ text_future[c].pc = "semantic"
  /\ HasScores(TextHits(c))
  /\ text_future' = [text_future EXCEPT ![c].pc = "done",
                                        ![c].rows = TextRows(TextHits(c))]
  /\ UNCHANGED <<semantic_supported, backend, semantic_enabled, client,
                 vector_future, queue, pages, fusion>>

\* where run_text_search is after the engine rejected its semantic query:
\* raised by the search call, the error is caught by the except clause; raised
\* while the hits are iterated, it leaves run_text_search
AfterRejection(at) ==
  IF at = "call" THEN [pc |-> "rejected", error |-> ""]
  ELSE [pc |-> "failed", error |-> "SemanticQueriesNotAvailable"]

\* the engine rejects the semantic query
TextSemanticRejected(c, at) ==
  /\ text_future[c].pc = "semantic"
  /\ text_future' = [text_future EXCEPT
       ![c].pc = AfterRejection(at).pc,
       ![c].error = AfterRejection(at).error]
  /\ UNCHANGED <<semantic_supported, backend, semantic_enabled, client,
                 vector_future, queue, pages, fusion>>

\* the except clause: the flag is cleared and the query is issued again as simple
TextFallback(c) ==
  /\ text_future[c].pc = "rejected"
  /\ semantic_enabled' = FALSE
  /\ text_future' = [text_future EXCEPT ![c].pc = "simple11", ![c].mode = "simple11"]
  /\ client' = [client EXCEPT ![c].calls.text = @ + 1]
  /\ UNCHANGED <<semantic_supported, backend, vector_future, queue, pages, fusion>>

\* a simple query succeeds and its hits are iterated into rows_local
TextSimpleOk(c) ==
  /\ text_future[c].pc \in {"simple13", "simple11"}
  /\ HasScores(TextHits(c))
  /\ text_future' = [text_future EXCEPT ![c].pc = "done",
                                        ![c].rows = TextRows(TextHits(c))]
  /\ UNCHANGED <<semantic_supported, backend, semantic_enabled, client,
                 vector_future, queue, pages, fusion>>

\* a text query fails with another error
TextError(c) ==
  /\ text_future[c].pc \in {"semantic", "simple13", "simple11"}
  /\ text_future' = [text_future EXCEPT ![c].pc = "failed", ![c].error = "transport"]
  /\ UNCHANGED <<semantic_supported, backend, semantic_enabled, client,
                 vector_future, queue, pages, fusion>>

\* a worker takes run_vector_search
VectorStart(c) ==
  /\ queue # <<>>
  /\ Head(queue) = <<c, "vector">>
  /\ Busy < max_workers
  /\ queue' = Tail(queue)
  /\ vector_future' = [vector_future EXCEPT ![c].pc = "running"]
  /\ client' = [client EXCEPT ![c].calls.embed = @ + 1]
  /\ UNCHANGED <<semantic_supported, backend, semantic_enabled, text_future,
                 pages, fusion>>

\* encode and the chunk search succeed
VectorOk(c) ==
  /\ vector_future[c].pc = "running"
  /\ vector_future' = [vector_future EXCEPT
       ![c].pc = "done",
       ![c].res = SubSeq(articles_chunks, 1,
                         Min2(ChunkTop(SearchKOf(c)), Len(articles_chunks)))]
  /\ client' = [client EXCEPT ![c].calls.vector = @ + 1]
  /\ UNCHANGED <<semantic_supported, backend, semantic_enabled, text_future,
                 queue, pages, fusion>>

\* encode raises ("embedding"), or the chunk search does ("transport")
VectorError(c, error) ==
  /\ vector_future[c].pc = "running"
  /\ vector_future' = [vector_future EXCEPT ![c].pc = "failed", ![c].error = error]
  /\ client' = [client EXCEPT ![c].calls.vector =
        IF error = "transport" THEN @ + 1 ELSE @]
  /\ UNCHANGED <<semantic_supported, backend, semantic_enabled, text_future,
                 queue, pages, fusion>>

\* text_future.result() returns
JoinText(c) ==
  /\ client[c].pc = "join_text"
  /\ text_future[c].pc = "done"
  /\ client' = [client EXCEPT ![c].pc = "join_vector"]
  /\ UNCHANGED <<semantic_supported, backend, semantic_enabled, text_future,
                 vector_future, queue, pages, fusion>>

\* a variant that swallows the exception and answers without results
RaisedSwallowed(error) == [Failure(error) EXCEPT !.status = "ok"]

\* what the request does with an exception of one of its futures: re-raised
Raised(error) == Failure(error)

\* text_future.result() raises
JoinTextRaises(c) ==
  /\ client[c].pc = "join_text"
  /\ text_future[c].pc = "failed"
  /\ client' = [client EXCEPT ![c].pc = "done",
                              ![c].resp = Raised(text_future[c].error)]
  /\ UNCHANGED <<semantic_supported, backend, semantic_enabled, text_future,
                 vector_future, queue, pages, fusion>>

\* a variant that does not wait for the vector task
VectorJoinedEarly(c) == TRUE

\* vector_future.result() has a value to return
VectorJoined(c) == vector_future[c].pc = "done"

\* vector_future.result() returns: aggregation, hydration, fusion, threshold
\* and page slice.  The batched lookup may fail; then every missing id is
\* looked up on its own.
JoinVector(c, batch_ok) ==
  /\ client[c].pc = "join_vector"
  /\ VectorJoined(c)
  /\ LET rows == text_future[c].rows
         vec_res == vector_future[c].res
         missing == MissingParentIds(MergeVector(rows, vec_res))
         resp == ArticlesResponse(rows, vec_res, articles_parent, settings,
                   client[c].k, client[c].page_index, client[c].page_size)
         full == ArticlesFused(rows, vec_res, articles_parent, settings)
     IN /\ missing = {} => batch_ok
        /\ client' = [client EXCEPT
             ![c].pc = "done",
             ![c].resp = resp,
             ![c].calls.batch = IF missing = {} THEN 0 ELSE 1,
             ![c].calls.point = IF batch_ok THEN 0 ELSE Cardinality(missing),
             ![c].calls.caught = IF batch_ok THEN {} ELSE {"batch"}]
        /\ pages' = Log("articles", client[c].page_index, resp, full)
  /\ UNCHANGED <<semantic_supported, backend, semantic_enabled, text_future,
                 vector_future, queue, fusion>>

\* vector_future.result() raises
JoinVectorRaises(c) ==
  /\ client[c].pc = "join_vector"
  /\ vector_future[c].pc = "failed"
  /\ client' = [client EXCEPT ![c].pc = "done",
                              ![c].resp = Raised(vector_future[c].error)]
  /\ UNCHANGED <<semantic_supported, backend, semantic_enabled, text_future,
                 vector_future, queue, pages, fusion>>

\* ------------------------------------------------------------ the service
Doc(id, score, reranker, business) ==
  [id |-> id, score |-> score, reranker |-> reranker, business |-> business]

Chunk(parent_id, score) == [parent_id |-> parent_id, score |-> score]

Author(id, name, match) == [id |-> id, name |-> name, match |-> match]

ArticlesPlan ==
  [isMeaningful |-> TRUE, search_type |-> "articles", normalized_query |-> "q",
   search_parameters |-> "given"]

DefaultSettings == [enable_score_filtering |-> TRUE, score_threshold |-> 0]

\* the service after __init__, called by the callers 1..n
InitService(n) ==
  /\ semantic_supported \in BOOLEAN
  /\ semantic_enabled \in ProbeResults(semantic_supported)
  /\ client = [c \in 1..n |-> IdleClient]
  /\ text_future = [c \in 1..n |-> NoTextFuture]
  /\ vector_future = [c \in 1..n |-> NoVectorFuture]
  /\ queue = <<>>
  /\ pages = NoPages

SmallIndex ==
  /\ articles_parent = <<Doc("d1", 2, 2, 1), Doc("d2", 1, 1, 0)>>
  /\ articles_chunks = <<Chunk("d2", 2), Chunk("d3", 1), Chunk("d2", 1)>>
  /\ authors = <<Author("a1", TRUE, 2), Author("a2", TRUE, 1)>>
  /\ settings = DefaultSettings
  /\ fusion = NoFusion

\* Spec: concurrent article searches, one request per caller, no pagination
Init ==
  /\ InitService(NumClients)
  /\ SmallIndex
  /\ session = [entry |-> "search_articles", plan |-> ArticlesPlan,
                k |-> 1, page_size |-> NoPage]

Next ==
  \/ \E c \in DOMAIN client : SubmitArticles(c, NoPage)
  \/ \E c \in DOMAIN client : TextStart(c)
  \/ \E c \in DOMAIN client : TextSemanticOk(c)
  \/ \E c \in DOMAIN client, at \in {"call", "iterate"} : TextSemanticRejected(c, at)
  \/ \E c \in DOMAIN client : TextFallback(c)
  \/ \E c \in DOMAIN client : TextSimpleOk(c)
  \/ \E c \in DOMAIN client : TextError(c)
  \/ \E c \in DOMAIN client : VectorStart(c)
  \/ \E c \in DOMAIN client : VectorOk(c)
  \/ \E c \in DOMAIN client : VectorError(c, "embedding")
  \/ \E c \in DOMAIN client : JoinText(c)
  \/ \E c \in DOMAIN client : JoinTextRaises(c)
  \/ \E c \in DOMAIN client : JoinVector(c, TRUE)
  \/ \E c \in DOMAIN client : JoinVectorRaises(c)

Spec == Init /\ [][Next]_vars

\* SpecRace: as Spec with more callers, the engine's rejection raised by the
\* search call, and no other failure
InitRace ==
  /\ InitService(RaceClients)
  /\ SmallIndex
  /\ session = [entry |-> "search_articles", plan |-> ArticlesPlan,
                k |-> 1, page_size |-> NoPage]

NextRace ==
  \/ \E c \in DOMAIN client : SubmitArticles(c, NoPage)
  \/ \E c \in DOMAIN client : TextStart(c)
  \/ \E c \in DOMAIN client : TextSemanticOk(c)
  \/ \E c \in DOMAIN client : TextSemanticRejected(c, "call")
  \/ \E c \in DOMAIN client : TextFallback(c)
  \/ \E c \in DOMAIN client : TextSimpleOk(c)
  \/ \E c \in DOMAIN client : VectorStart(c)
  \/ \E c \in DOMAIN client : VectorOk(c)
  \/ \E c \in DOMAIN client : JoinText(c)
  \/ \E c \in DOMAIN client : JoinVector(c, TRUE)

SpecRace == InitRace /\ [][NextRace]_vars

\* SpecSearch: one caller pages through the results of one query, by any of
\* the entry points; the engine answers every query and does not change
InitSearch ==
  /\ InitService(1)
  /\ semantic_enabled = semantic_supported
  /\ articles_parent = <<Doc("d1", 2, 2, 1), Doc("d2", 2, 1, 1), Doc("d3", 1, 1, 0)>>
  /\ articles_chunks = <<Chunk("d3", 1), Chunk("d4", 1)>>
  /\ authors \in {<<Author("a1", TRUE, 2), Author("a2", TRUE, 2), Author("a3", TRUE, 1),
                    Author("a4", TRUE, 0)>>,
                  <<Author("a1", TRUE, 1), Author("a2", FALSE, 2), Author("a3", TRUE, 2)>>}
  /\ settings \in {DefaultSettings,
                   [enable_score_filtering |-> TRUE, score_threshold |-> SampleThreshold],
                   [enable_score_filtering |-> FALSE, score_threshold |-> SampleThreshold]}
  /\ session \in [entry : Entries, plan : Plans, k : {1},
                   page_size : {NoPage} \cup 1..MaxPageSize]
  /\ fusion = NoFusion

PageIndexes == {NoPage} \cup 0..MaxPage

NextSearch ==
  \/ \E page_index \in PageIndexes : Unmeaningful(1, page_index)
  \/ \E page_index \in PageIndexes, scan_ok \in BOOLEAN :
       SearchAuthors(1, page_index, scan_ok)
  \/ \E page_index \in PageIndexes : SubmitArticles(1, page_index)
  \/ TextStart(1)
  \/ TextSemanticOk(1)
  \/ TextSimpleOk(1)
  \/ VectorStart(1)
  \/ VectorOk(1)
  \/ JoinText(1)
  \/ \E batch_ok \in BOOLEAN : JoinVector(1, batch_ok)

SpecSearch == InitSearch /\ [][NextSearch]_vars
\* SpecFuse: the rows of one request are built from what the sub-queries or
\* the catalog scan returned, and fused
Seqs(S, n) == UNION {[1..m -> S] : m \in 0..n}

TextSamples ==
  {<<>>,
   <<Doc("d1", 2, 1, 1)>>,
   <<Doc("d1", 2, 0, 1), Doc("d2", 1, 0, 1)>>,
   <<Doc("d1", 2, 1, 1), Doc("d1", 1, 0, 0)>>}

ChunkHits ==
  {Chunk("d1", v) : v \in 0..MaxScore}
  \cup {Chunk("d3", 1), Chunk("d3", MaxScore), Chunk("None", 1)}

Candidates == {Author(id, TRUE, m) : id \in {"a1", "a2"}, m \in 0..MaxScore}

FuseInput(kind, rows, vec_res, catalog, k) ==
  [stage |-> "input", kind |-> kind, rows |-> rows, vec_res |-> vec_res,
   catalog |-> catalog, k |-> k, fuser_rows |-> <<>>, weights |-> <<>>,
   fused |-> <<>>]

InitFuse ==
  /\ InitService(1)
  /\ semantic_enabled = semantic_supported
  /\ ~semantic_supported
  /\ articles_parent = <<Doc("d1", 2, 1, 1), Doc("d2", 1, 0, 1), Doc("d3", 1, 0, 2)>>
  /\ articles_chunks = <<>>
  /\ authors = <<>>
  /\ settings = DefaultSettings
  /\ session = [entry |-> "search", plan |-> ArticlesPlan, k |-> 1, page_size |-> NoPage]
  /\ fusion \in
       {FuseInput("article", TextRows(hits), vec_res, <<>>, 0) :
          hits \in TextSamples, vec_res \in Seqs(ChunkHits, MaxHits)}
       \cup {FuseInput("author", <<>>, <<>>, catalog, k) :
          catalog \in Seqs(Candidates, MaxHits), k \in {1, MaxHits}}

\* _search_articles_planned from the join to the call of fuse_articles
Aggregate ==
  /\ fusion.stage = "input"
  /\ fusion.kind = "article"
  /\ fusion' = [fusion EXCEPT
       !.stage = "rows",
       !.fuser_rows = ArticleRows(fusion.rows, fusion.vec_res, articles_parent)]
  /\ UNCHANGED <<semantic_supported, backend, semantic_enabled, client, text_future,
                 vector_future, queue, pages>>

\* _search_authors_planned from the catalog to the call of fuse_authors
MatchAuthors ==
  /\ fusion.stage = "input"
  /\ fusion.kind = "author"
  /\ fusion' = [fusion EXCEPT
       !.stage = "rows",
       !.fuser_rows = AuthorRows(FuzzyMatchAuthors(fusion.catalog, fusion.k))]
  /\ UNCHANGED <<semantic_supported, backend, semantic_enabled, client, text_future,
                 vector_future, queue, pages>>

\* fuse_articles / fuse_authors; weights are the adjusted weights the call used
Fuse ==
  /\ fusion.stage = "rows"
  /\ LET w == IF fusion.kind = "article" THEN ArticleWeights ELSE AuthorWeights
     IN fusion' = [fusion EXCEPT
          !.stage = "fused",
          !.weights = IF fusion.fuser_rows = <<>> THEN <<>>
                      ELSE <<AdjustedWeights(fusion.fuser_rows, fusion.kind, w)>>,
          !.fused = IF fusion.kind = "article" THEN fuse_articles(fusion.fuser_rows)
                    ELSE fuse_authors(fusion.fuser_rows)]
  /\ UNCHANGED <<semantic_supported, backend, semantic_enabled, client, text_future,
                 vector_future, queue, pages>>

NextFuse == Aggregate \/ MatchAuthors \/ Fuse

SpecFuse == InitFuse /\ [][NextFuse]_vars
\* -------------------------------------------------------------- properties
Done(c) == client[c].pc = "done"

SearchTypes == {"articles", "authors"}

\* the results of pages 0..n-1 of a search, one after the other
RECURSIVE ConcatPages(_, _)
ConcatPages(s, n) ==
  IF n = 0 THEN <<>> ELSE ConcatPages(s, n - 1) \o pages[s][n - 1][1].results

\* every page that the response for page 0 announces has been answered
AllPagesSeen(s) ==
  /\ pages[s][0] # <<>>
  /\ pages[s][0][1].pagination.total_pages - 1 <= MaxPage
  /\ \A p \in 0..(pages[s][0][1].pagination.total_pages - 1) : pages[s][p] # <<>>

\* C1: for a fixed query, k, page_size and an unchanged backend the results of
\* pages 0 .. total_pages-1, one after the other, are the full fused and
\* filtered list: every row once, in the same order, for articles and authors.
\* (SpecSearch)
C1_PagesReproduceFullList ==
  \A s \in SearchTypes :
    AllPagesSeen(s) =>
      LET total_pages == pages[s][0][1].pagination.total_pages
      IN /\ NoDup(ConcatPages(s, total_pages))
         /\ \A p \in 0..(total_pages - 1) :
              ConcatPages(s, total_pages) = pages[s][p][1].full

\* C2: a request whose plan is not meaningful is answered with no results, the
\* advisory string and, when paginated, zero totals and no next or previous
\* page, and the request issues no text query, vector query, embedding call,
\* catalog scan or document lookup.  (SpecSearch)
C2_NotMeaningfulShortCircuits ==
  ~session.plan.isMeaningful =>
    /\ queue = <<>>
    /\ \A c \in DOMAIN client :
         /\ text_future[c] = NoTextFuture
         /\ vector_future[c] = NoVectorFuture
         /\ client[c].calls = NoCalls
         /\ Done(c) =>
              /\ client[c].resp.status = "ok"
              /\ client[c].resp.results = <<>>
              /\ client[c].resp.normalized_query = "advisory"
              /\ Paginated(client[c].page_index, client[c].page_size) =>
                   /\ Len(client[c].resp.pagination) = 1
                   /\ client[c].resp.pagination[1].total_results = 0
                   /\ client[c].resp.pagination[1].total_pages = 0
                   /\ ~client[c].resp.pagination[1].has_next
                   /\ ~client[c].resp.pagination[1].has_previous

C2_Witness ==
  /\ ~session.plan.isMeaningful
  /\ session.entry = "search_authors"
  /\ Done(1)
  /\ client[1].page_index = 1

\* the signal that takes over the semantic weight of an entity type
FallbackSignal(kind) == IF kind = "article" THEN "vector" ELSE "bm25"

\* C3: when every fused row has semantic score 0, the effective semantic
\* weight is 0, the configured semantic weight is added to the fallback signal
\* of the entity type (vector for articles, bm25 for authors), and the two
\* other weights stay as configured.  (SpecFuse)
C3_WeightGoesToFallbackSignal ==
  (/\ fusion.stage = "fused"
   /\ fusion.fuser_rows # <<>>
   /\ ~SemanticAvailable(fusion.fuser_rows)) =>
    LET w == IF fusion.kind = "article" THEN ArticleWeights ELSE AuthorWeights
        eff == fusion.weights[1]
        fb == FallbackSignal(fusion.kind)
    IN /\ eff.semantic = 0
       /\ eff[fb] = w[fb] + w.semantic
       /\ \A f \in {"bm25", "vector", "business"} \ {fb} : eff[f] = w[f]

\* C4: once semantic_enabled is false no step sets it back to true, and every
\* text sub-query that starts while it is false is issued in simple mode.
\* (Spec)
C4_FlagStaysFalse ==
  [][~semantic_enabled =>
       /\ ~semantic_enabled'
       /\ \A c \in DOMAIN client :
            (text_future[c].pc = "queued" /\ text_future'[c].pc # "queued") =>
              /\ text_future'[c].pc = "simple13"
              /\ text_future'[c].mode = "simple13"]_vars

C4_Witness ==
  /\ ~semantic_enabled
  /\ \E c, d \in DOMAIN client :
       /\ text_future[c].mode = "simple11"
       /\ text_future[d].mode = "simple13"
       /\ Done(d)

\* C5: a request whose semantic text query the engine rejected, at the call or
\* while its results are iterated, has cleared the flag and retried in simple
\* mode, and its caller never sees the semantic-not-supported error.  (Spec)
C5_RejectionInvisible ==
  \A c \in DOMAIN client :
    (c \in Rejected /\ Done(c)) =>
      /\ client[c].resp.error # "SemanticQueriesNotAvailable"
      /\ ~semantic_enabled
      /\ text_future[c].mode = "simple11"

\* C6: under any interleaving, at most one semantic request is issued after
\* the first rejection and rejected too, no request fails, and once every
\* rejected task has passed its except clause the flag is false.  (SpecRace)
C6_AtMostOneExtraRejection ==
  /\ Cardinality({c \in Rejected : text_future[c].late}) <= 1
  /\ \A c \in DOMAIN client : client[c].resp.status # "error"
  /\ (Rejected # {} /\ \A c \in DOMAIN client : text_future[c].pc # "rejected")
       => ~semantic_enabled

\* C7: a request is past its text join only when its text task has completed,
\* and it has aggregated, hydrated and fused only when both its tasks have
\* completed; its results are the ones built from both outputs.  (Spec)
C7_JoinBeforeFusion ==
  \A c \in DOMAIN client :
    /\ client[c].pc = "join_vector" => text_future[c].pc = "done"
    /\ (Done(c) /\ client[c].resp.status = "ok") =>
         /\ text_future[c].pc = "done"
         /\ vector_future[c].pc = "done"
         /\ client[c].resp =
              ArticlesResponse(text_future[c].rows, vector_future[c].res,
                               articles_parent, settings, client[c].k,
                               client[c].page_index, client[c].page_size)

C7_Witness ==
  \E c \in DOMAIN client :
    /\ Done(c)
    /\ client[c].resp.status = "ok"
    /\ Len(vector_future[c].res) > 1
    /\ client[c].resp.results # <<>>

\* C8: when the text task of a request failed with an error other than
\* semantic-not-supported, or its vector task failed after the text task
\* completed, the request has failed with that error and without results.
\* (Spec)
C8_FailureAbortsRequest ==
  \A c \in DOMAIN client :
    Done(c) =>
      /\ (/\ text_future[c].pc = "failed"
          /\ text_future[c].error # "SemanticQueriesNotAvailable") =>
           client[c].resp = Failure(text_future[c].error)
      /\ (text_future[c].pc = "done" /\ vector_future[c].pc = "failed") =>
           client[c].resp = Failure(vector_future[c].error)

C8_Witness ==
  \E c, d \in DOMAIN client :
    /\ Done(c)
    /\ text_future[c].pc = "done"
    /\ vector_future[c].error = "embedding"
    /\ Done(d)
    /\ text_future[d].error = "transport"
    /\ vector_future[d].pc = "done"

\* the chunk hits of a parent among the hits of the vector sub-query
ChunksOf(vec_res, pid) == {i \in DOMAIN vec_res : vec_res[i].parent_id = pid}

MaxRule(vec_res, text_rows, rows) ==
  /\ \A i \in DOMAIN vec_res :
       vec_res[i].parent_id # "None" =>
         \E j \in DOMAIN rows : rows[j].id = vec_res[i].parent_id
  /\ \A j \in DOMAIN rows :
       /\ rows[j].id # "None"
       /\ \/ ChunksOf(vec_res, rows[j].id) # {}
          \/ \E t \in DOMAIN text_rows : text_rows[t].id = rows[j].id
       /\ \A i \in ChunksOf(vec_res, rows[j].id) : vec_res[i].score <= rows[j].vector
       /\ IF ChunksOf(vec_res, rows[j].id) = {} THEN rows[j].vector = 0
          ELSE \E i \in ChunksOf(vec_res, rows[j].id) :
                 vec_res[i].score = rows[j].vector

\* C9: the row of every parent_id has as vector score the highest score of
\* that parent's chunk hits, with or without a row from the text sub-query,
\* and chunk hits without parent_id make no row.  (SpecFuse)
C9_VectorIsMaxChunkScore ==
  (fusion.stage \in {"rows", "fused"} /\ fusion.kind = "article") =>
    /\ MaxRule(fusion.vec_res, fusion.rows, fusion.fuser_rows)
    /\ fusion.stage = "fused" =>
         MaxRule(fusion.vec_res, fusion.rows, fusion.fused)

C9_Witness ==
  /\ fusion.stage = "fused"
  /\ fusion.kind = "article"
  /\ \E i, j, n \in DOMAIN fusion.vec_res :
       /\ fusion.vec_res[i].parent_id = "d1"
       /\ fusion.vec_res[j].parent_id = "d1"
       /\ fusion.vec_res[i].score = 1
       /\ fusion.vec_res[j].score = 2
       /\ i < j
       /\ fusion.vec_res[n].parent_id = "None"
  /\ \E t \in DOMAIN fusion.rows : fusion.rows[t].id = "d1"
  /\ \E r \in DOMAIN fusion.fused :
       fusion.fused[r].id = "d1" /\ fusion.fused[r].vector = 2

\* C10: the rows handed to the fuser and the fused results have at most one
\* row per id, whatever the text sub-query, the vector sub-query or the catalog
\* scan returned, for articles and for authors.  (SpecFuse)
C10_OneRowPerId ==
  fusion.stage \in {"rows", "fused"} =>
    /\ NoDup(Ids(fusion.fuser_rows))
    /\ NoDup(Ids(fusion.fused))

\* the articles endpoint: one ArticleHit per result whose doc is not None
EndpointArticles(resp) == Ids(SelectSeq(resp.results, LAMBDA r : r.doc # "None"))

\* the parent ids that only the vector sub-query of request c returned
VectorOnlyIds(c) ==
  {vector_future[c].res[i].parent_id : i \in DOMAIN vector_future[c].res}
  \ ({"None"} \cup {text_future[c].rows[i].id : i \in DOMAIN text_future[c].rows})

\* C11: a parent id that only the vector sub-query returned has a row in the
\* fused set with bm25 = semantic = 0 and vector = its highest chunk score; the
\* missing documents are asked for in one batched lookup, and one by one when
\* that fails; a row that is in the results is in what the caller receives.
\* (SpecSearch)
C11_PlaceholderNeverLost ==
  \A c \in DOMAIN client :
    (Done(c) /\ client[c].resp.status = "ok" /\ client[c].resp.search_type = "articles"
     /\ vector_future[c].pc = "done") =>
      LET fused == fuse_articles(ArticleRows(text_future[c].rows, vector_future[c].res,
                                             articles_parent))
      IN /\ \A id \in VectorOnlyIds(c) :
              \E j \in DOMAIN fused :
                /\ fused[j].id = id
                /\ fused[j].bm25 = 0
                /\ fused[j].semantic = 0
                /\ \A i \in ChunksOf(vector_future[c].res, id) :
                     vector_future[c].res[i].score <= fused[j].vector
         /\ VectorOnlyIds(c) # {} => client[c].calls.batch = 1
         /\ client[c].calls.point \in {0, Cardinality(VectorOnlyIds(c))}
         /\ EndpointArticles(client[c].resp) = Ids(client[c].resp.results)

\* the fused list of request c before the threshold filter; an authors search
\* fuses the matches of the catalog, or nothing when the scan failed
Unfiltered(c) ==
  IF client[c].resp.search_type = "articles"
  THEN {fuse_articles(ArticleRows(text_future[c].rows, vector_future[c].res,
                                  articles_parent))}
  ELSE {fuse_authors(AuthorRows(FuzzyMatchAuthors(all_authors, SearchKOf(c)))) :
          all_authors \in {authors, <<>>}}

Answered(c) ==
  /\ Done(c)
  /\ client[c].resp.status = "ok"
  /\ session.plan.isMeaningful

FilterActive == settings.enable_score_filtering /\ settings.score_threshold > 0

AboveThreshold(r) == r.final * ThresholdUnit >= settings.score_threshold * r.fden

\* the rows of a list that the response has to be built from
Kept(list) ==
  IF FilterActive THEN SelectSeq(list, LAMBDA r : AboveThreshold(r)) ELSE list

FirstRow(c) ==
  IF Paginated(client[c].page_index, client[c].page_size)
  THEN client[c].page_index * client[c].page_size ELSE 0

RowsWanted(c) ==
  IF Paginated(client[c].page_index, client[c].page_size)
  THEN client[c].page_size ELSE client[c].k

\* C12: with filtering enabled and a threshold above 0 the rows with final
\* below the threshold are removed from the whole fused list before the page
\* is cut, the totals count the filtered list and no returned row is below the
\* threshold; with filtering disabled or a threshold <= 0 nothing is removed.
\* (SpecSearch)
C12_ThresholdBeforePagination ==
  \A c \in DOMAIN client :
    Answered(c) =>
      \E list \in Unfiltered(c) :
        /\ client[c].resp.results = Slice(Kept(list), FirstRow(c), FirstRow(c) + RowsWanted(c))
        /\ FilterActive =>
             \A i \in DOMAIN client[c].resp.results :
               AboveThreshold(client[c].resp.results[i])
        /\ Paginated(client[c].page_index, client[c].page_size) =>
             /\ client[c].resp.pagination[1].total_results = Len(Kept(list))
             /\ client[c].resp.pagination[1].total_pages * client[c].page_size
                  >= Len(Kept(list))
             /\ client[c].resp.pagination[1].has_next =
                  (FirstRow(c) + client[c].page_size < Len(Kept(list)))

C12_Witness ==
  \E c \in DOMAIN client :
    /\ Answered(c)
    /\ FilterActive
    /\ client[c].resp.results # <<>>
    /\ client[c].page_index = 0
    /\ \E list \in Unfiltered(c) :
         client[c].resp.pagination[1].total_results < Len(list)

\* the number of candidates request c has to ask its sub-queries for
CandidatesWanted(c) ==
  IF Paginated(client[c].page_index, client[c].page_size)
  THEN LET needed == client[c].page_index * client[c].page_size + client[c].page_size
       IN IF needed >= 2 * client[c].k THEN needed ELSE 2 * client[c].k
  ELSE client[c].k

\* list is what a query for "top" hits returns from an index
AnswerTo(list, index, top) ==
  Len(list) = IF top <= Len(index) THEN top ELSE Len(index)

\* C13: offset = page_index * page_size; the sub-queries are sized from
\* search_k = max(offset + page_size, 2*k); the results are the elements at
\* positions [offset, offset + page_size) of the fused and filtered list, at
\* most page_size of them and none when the offset is past the end; without
\* pagination they are its first k elements.  (SpecSearch)
C13_OverfetchAndSlice ==
  \A c \in DOMAIN client :
    Answered(c) =>
      /\ client[c].resp.search_type = "articles" =>
           /\ AnswerTo(text_future[c].rows, articles_parent,
                       (CandidatesWanted(c)
                        * (IF text_future[c].mode = "simple13" THEN 13 ELSE 11)) \div 10)
           /\ AnswerTo(vector_future[c].res, articles_chunks, 4 * CandidatesWanted(c))
      /\ \E list \in Unfiltered(c) :
           LET wanted == Kept(list)
               results == client[c].resp.results
           IN /\ client[c].resp.search_type = "authors" =>
                   Len(list) <= CandidatesWanted(c)
              /\ Len(results) <= RowsWanted(c)
              /\ \A i \in DOMAIN results :
                   /\ FirstRow(c) + i \in DOMAIN wanted
                   /\ results[i] = wanted[FirstRow(c) + i]
              /\ Len(results) < RowsWanted(c) =>
                   FirstRow(c) + Len(results) >= Len(wanted)

C13_Witness ==
  \E c \in DOMAIN client :
    /\ Answered(c)
    /\ client[c].resp.search_type = "articles"
    /\ client[c].page_index = 1
    /\ client[c].page_size = 2
    /\ Len(client[c].resp.results) = 2
    /\ Len(text_future[c].rows) = 3

\* pagination p describes page page_index of a list of total rows
Describes(p, total, page_index, page_size) ==
  /\ p.total_results = total
  /\ p.total_pages * page_size >= total
  /\ (p.total_pages - 1) * page_size < total \/ (total = 0 /\ p.total_pages = 0)
  /\ p.has_next = ((page_index + 1) * page_size < total)
  /\ p.has_previous = (page_index > 0)

PaginatedResponse(c) ==
  /\ Done(c)
  /\ client[c].resp.status = "ok"
  /\ Paginated(client[c].page_index, client[c].page_size)

\* C14 as stated: in every paginated response total_results is the length of
\* the fused and filtered list (empty for a query that is not meaningful),
\* total_pages = ceil(total_results / page_size), has_next is true exactly when
\* (page_index + 1) * page_size < total_results and has_previous exactly when
\* page_index > 0.  (SpecSearch)
C14_PaginationFieldsEveryResponse ==
  \A c \in DOMAIN client :
    PaginatedResponse(c) =>
      \E list \in (IF session.plan.isMeaningful THEN Unfiltered(c) ELSE {<<>>}) :
        Describes(client[c].resp.pagination[1], Len(Kept(list)),
                  client[c].page_index, client[c].page_size)

\* C14 amended: the same for every paginated response of a search that ran;
\* the response to a query that is not meaningful has zero totals and neither
\* a next nor a previous page, whatever its page_index.  (SpecSearch)
C14_PaginationFields ==
  \A c \in DOMAIN client :
    PaginatedResponse(c) =>
      IF session.plan.isMeaningful
      THEN \E list \in Unfiltered(c) :
             Describes(client[c].resp.pagination[1], Len(Kept(list)),
                       client[c].page_index, client[c].page_size)
      ELSE /\ client[c].resp.pagination[1].total_results = 0
           /\ client[c].resp.pagination[1].total_pages = 0
           /\ ~client[c].resp.pagination[1].has_next
           /\ ~client[c].resp.pagination[1].has_previous

C14_Witness ==
  \E c \in DOMAIN client :
    /\ PaginatedResponse(c)
    /\ session.plan.isMeaningful
    /\ client[c].page_index = 1
    /\ client[c].resp.pagination[1].has_next
    /\ client[c].resp.pagination[1].has_previous
    /\ client[c].resp.pagination[1].total_pages = 4

\* SpecRows: fuse_articles or fuse_authors is called on a list of rows, and
\* called again on the rows as that call left them
Signals ==
  {<<b, 0, 0, 0>> : b \in 0..MaxScore}
  \cup {<<1, 1, 0, 0>>, <<1, 0, 1, 0>>, <<0, 0, 0, 1>>, <<1, 2, 0, 1>>,
        <<ScoreUnit + 1, 1, 0, 0>>}

GivenRows(n) ==
  {[i \in 1..n |-> Row("r" \o ToString(i), "r" \o ToString(i),
                       sig[i][1], sig[i][2], sig[i][3], sig[i][4])] :
     sig \in [1..n -> Signals]}

FuseOf(kind, rows) == IF kind = "article" THEN fuse_articles(rows) ELSE fuse_authors(rows)

InitRows ==
  /\ InitService(1)
  /\ semantic_enabled = semantic_supported
  /\ ~semantic_supported
  /\ articles_parent = <<>>
  /\ articles_chunks = <<>>
  /\ authors = <<>>
  /\ settings = DefaultSettings
  /\ session = [entry |-> "search", plan |-> ArticlesPlan, k |-> 1, page_size |-> NoPage]
  /\ \E n \in 0..MaxRows, kind \in {"article", "author"} :
       \E rows \in GivenRows(n) :
         fusion = [stage |-> "given", kind |-> kind, rows |-> rows, out |-> <<>>,
                   left |-> rows, order |-> "", again |-> <<>>]

\* the first call: every row gets its _final in place, the sorted list is returned
FuseFirst ==
  /\ fusion.stage = "given"
  /\ LET out == FuseOf(fusion.kind, fusion.rows)
     IN fusion' = [fusion EXCEPT
          !.stage = "fused",
          !.out = out,
          !.left = [i \in DOMAIN fusion.rows |->
                      LET p == CHOOSE p \in DOMAIN out : out[p].id = fusion.rows[i].id
                      IN out[p]]]
  /\ UNCHANGED <<semantic_supported, backend, semantic_enabled, client, text_future,
                 vector_future, queue, pages>>

\* the second call, on the rows in the order of the input or of the result
FuseAgain(order) ==
  /\ fusion.stage = "fused"
  /\ fusion' = [fusion EXCEPT
       !.stage = "again",
       !.order = order,
       !.again = FuseOf(fusion.kind,
                        IF order = "input" THEN fusion.left ELSE fusion.out)]
  /\ UNCHANGED <<semantic_supported, backend, semantic_enabled, client, text_future,
                 vector_future, queue, pages>>

NextRows == FuseFirst \/ \E order \in {"input", "returned"} : FuseAgain(order)

SpecRows == InitRows /\ [][NextRows]_vars

\* the orders in which the rows of a list of n rows can be returned
Orders(n) == {f \in [1..n -> 1..n] : \A i, j \in 1..n : i # j => f[i] # f[j]}

\* out is the list rows in the order f, each row with a final score
Reordered(out, rows, f) ==
  \A p \in DOMAIN out :
    out[p] = [rows[f[p]] EXCEPT !.final = out[p].final, !.fden = out[p].fden]

\* C15: fuse returns the rows it was given, ordered by non-increasing final
\* score, rows of equal final score in the order of the input; the empty list
\* gives the empty list.  (SpecRows)
C15_SortedStable ==
  fusion.stage = "fused" =>
    /\ Len(fusion.out) = Len(fusion.rows)
    /\ \E f \in Orders(Len(fusion.rows)) :
         /\ Reordered(fusion.out, fusion.rows, f)
         /\ \A p, q \in DOMAIN fusion.out :
              p < q =>
                /\ fusion.out[p].final * fusion.out[q].fden
                     >= fusion.out[q].final * fusion.out[p].fden
                /\ (fusion.out[p].final * fusion.out[q].fden
                      = fusion.out[q].final * fusion.out[p].fden) => f[p] < f[q]

C15_Witness ==
  /\ fusion.stage = "fused"
  /\ Len(fusion.out) = 3
  /\ fusion.out[1].final > fusion.out[2].final
  /\ fusion.out[2].final = fusion.out[3].final
  /\ fusion.out[1].id = "r2"
  /\ fusion.out[2].id = "r1"
  /\ fusion.out[3].id = "r3"

\* C16: a second call of fuse on the rows of a first call, as that call left
\* them and in the order of the input or of the result, returns the same order
\* and the same final score for every row.  (SpecRows)
C16_FuseTwiceSame ==
  fusion.stage = "again" =>
    /\ fusion.again = fusion.out
    /\ \A i \in DOMAIN fusion.left :
         \E p \in DOMAIN fusion.again : fusion.again[p] = fusion.left[i]

C16_Witness ==
  /\ fusion.stage = "again"
  /\ fusion.order = "returned"
  /\ Len(fusion.again) = 3
  /\ fusion.again[1].id = "r3"
  /\ fusion.again[2].final = fusion.again[3].final
  /\ fusion.again[3].final > 0
  /\ SemanticAvailable(fusion.again)

\* SpecPlan: one request whose plan is what plan_query makes of the planner's
\* reply: the call raises, the reply is no JSON, or it is a JSON object with
\* some of the plan's keys
PlanKeys == {"normalized_query", "search_type", "search_parameters", "isMeaningful"}

Replies ==
  [kind : {"raises", "text"}, has : {{}}, isMeaningful : {TRUE},
   search_type : {"articles"}]
  \cup [kind : {"json"}, has : SUBSET PlanKeys, isMeaningful : BOOLEAN,
        search_type : {"articles", "authors", "unmeaningful"}]

\* LLMService.plan_query
plan_query(reply) ==
  IF reply.kind # "json"
  THEN [isMeaningful |-> TRUE, search_type |-> "articles", normalized_query |-> "raw",
        search_parameters |-> "default"]
  ELSE [isMeaningful |-> IF "isMeaningful" \in reply.has THEN reply.isMeaningful ELSE TRUE,
        search_type |-> IF "search_type" \in reply.has THEN reply.search_type
                        ELSE "articles",
        normalized_query |-> IF "normalized_query" \in reply.has THEN "q" ELSE "missing",
        search_parameters |-> IF "search_parameters" \in reply.has THEN "given"
                              ELSE "default"]

InitPlan ==
  /\ InitService(1)
  /\ semantic_enabled = semantic_supported
  /\ SmallIndex
  /\ \E entry \in Entries, reply \in Replies :
       session = [entry |-> entry, plan |-> plan_query(reply), reply |-> reply,
                  k |-> 1, page_size |-> NoPage]

NextPlan ==
  \/ Unmeaningful(1, NoPage)
  \/ PlanKeyError(1, NoPage)
  \/ SearchAuthors(1, NoPage, TRUE)
  \/ SubmitArticles(1, NoPage)
  \/ TextStart(1)
  \/ TextSemanticOk(1)
  \/ TextSimpleOk(1)
  \/ VectorStart(1)
  \/ VectorOk(1)
  \/ JoinText(1)
  \/ JoinVector(1, TRUE)

SpecPlan == InitPlan /\ [][NextPlan]_vars

\* C17: whatever the planner call does, the plan has a query (the planner's or
\* the user's), a search type and a meaningful flag, with type articles and
\* meaningful = true where the reply gives none, and no request fails because
\* of planning.  (SpecPlan)
C17_PlanningNeverFails ==
  /\ session.plan.normalized_query \in {"q", "raw"}
  /\ session.reply.kind # "json" =>
       /\ session.plan.normalized_query = "raw"
       /\ session.plan.search_type = "articles"
       /\ session.plan.isMeaningful
  /\ (session.reply.kind = "json" /\ "search_type" \notin session.reply.has) =>
       session.plan.search_type = "articles"
  /\ (session.reply.kind = "json" /\ "isMeaningful" \notin session.reply.has) =>
       session.plan.isMeaningful
  /\ \A c \in DOMAIN client : Done(c) => client[c].resp.status = "ok"

\* SpecFaults: one request by any entry point, every plan; each call to the
\* search engine or to the embedding service may raise
InitFaults ==
  /\ InitService(1)
  /\ semantic_enabled = semantic_supported
  /\ articles_parent = <<Doc("d1", 2, 2, 1), Doc("d2", 2, 1, 1), Doc("d3", 1, 1, 0)>>
  /\ articles_chunks = <<Chunk("d3", 1), Chunk("d4", 1)>>
  /\ authors \in {<<Author("a1", TRUE, 2), Author("a2", TRUE, 1)>>,
                  <<Author("a1", TRUE, 1), Author("a2", FALSE, 2)>>}
  /\ settings = DefaultSettings
  /\ session \in [entry : Entries, plan : Plans, k : {1}, page_size : {NoPage}]
  /\ fusion = NoFusion

NextFaults ==
  \/ Unmeaningful(1, NoPage)
  \/ \E scan_ok \in BOOLEAN : SearchAuthors(1, NoPage, scan_ok)
  \/ SubmitArticles(1, NoPage)
  \/ TextStart(1)
  \/ TextSemanticOk(1)
  \/ TextSimpleOk(1)
  \/ TextError(1)
  \/ VectorStart(1)
  \/ VectorOk(1)
  \/ \E error \in {"embedding", "transport"} : VectorError(1, error)
  \/ JoinText(1)
  \/ JoinTextRaises(1)
  \/ \E batch_ok \in BOOLEAN : JoinVector(1, batch_ok)
  \/ JoinVectorRaises(1)

SpecFaults == InitFaults /\ [][NextFaults]_vars

\* the steps of a request that raised before the request was answered
FailedSteps(c) ==
  client[c].calls.caught
  \cup (IF text_future[c].pc = "failed" THEN {"text"} ELSE {})
  \cup (IF vector_future[c].pc = "failed" THEN {vector_future[c].error} ELSE {})

\* C18: a request one of whose steps raised (text search, vector search,
\* catalog scan, batched lookup, embedding) ends in a failure, never in a
\* successful response.  (SpecFaults)
C18_ErrorsPropagate ==
  \A c \in DOMAIN client :
    (Done(c) /\ FailedSteps(c) # {}) => client[c].resp.status = "error"

\* the same for the steps other than the catalog scan and the batched lookup
C18_SubQueryErrorsPropagate ==
  \A c \in DOMAIN client :
    (Done(c) /\ FailedSteps(c) \cap {"text", "embedding", "transport"} # {}) =>
      client[c].resp.status = "error"

\* SpecHits: one article search over hits that may lack a score field
HitScores == {Absent, 1, 2}

HitRerankers == {Absent, 0, 2}

InitHits ==
  /\ InitService(1)
  /\ \E s1 \in HitScores, s2 \in HitScores, r1 \in HitRerankers, r2 \in HitRerankers :
       articles_parent = <<Doc("d1", s1, r1, 1), Doc("d2", s2, r2, 0)>>
  /\ \E v \in HitScores, u \in {Absent, 2} :
       articles_chunks = <<Chunk("d2", v), Chunk("d3", Absent), Chunk("d3", u)>>
  /\ authors = <<>>
  /\ settings = DefaultSettings
  /\ session = [entry |-> "search_articles", plan |-> ArticlesPlan,
                k |-> 1, page_size |-> NoPage]
  /\ fusion = NoFusion

NextHits ==
  \/ SubmitArticles(1, NoPage)
  \/ TextStart(1)
  \/ TextSemanticOk(1)
  \/ TextSimpleOk(1)
  \/ TextKeyError(1)
  \/ VectorStart(1)
  \/ VectorOk(1)
  \/ JoinText(1)
  \/ JoinTextRaises(1)
  \/ JoinVector(1, TRUE)

SpecHits == InitHits /\ [][NextHits]_vars

\* C19: a hit without a score field counts 0 for that signal: the request
\* is answered, and a returned row has the hit's lexical score, or 0 where the
\* hit has none.  (SpecHits)
C19_MissingScoreIsZero ==
  \A c \in DOMAIN client :
    Done(c) =>
      /\ client[c].resp.status = "ok"
      /\ \A i \in DOMAIN client[c].resp.results, n \in DOMAIN articles_parent :
           articles_parent[n].id = client[c].resp.results[i].id =>
             client[c].resp.results[i].bm25 = Get(articles_parent[n].score, 0)

\* SpecMatch: one call of _fuzzy_match_authors(query, all_authors, k).  A
\* candidate has no full_name, a full_name that normalises to the empty string
\* (its combined score is 0 against a query with words), or a name with words
\* and any combined score up to 1.0.
MatchCandidates ==
  {[id |-> id, name |-> TRUE, norm_len |-> 1, match |-> m] :
     id \in {"a1", "a2"}, m \in 0..ScoreUnit}
  \cup {[id |-> id, name |-> named, norm_len |-> 0, match |-> 0] :
     id \in {"a1", "a2"}, named \in BOOLEAN}

InitMatch ==
  /\ InitService(1)
  /\ semantic_enabled = semantic_supported
  /\ ~semantic_supported
  /\ articles_parent = <<>>
  /\ articles_chunks = <<>>
  /\ authors = <<>>
  /\ settings = DefaultSettings
  /\ session = [entry |-> "search_authors", plan |-> ArticlesPlan, k |-> 1,
                page_size |-> NoPage]
  /\ fusion \in
       {[stage |-> "input", kind |-> "match", query_len |-> query_len,
         catalog |-> catalog, k |-> k, out |-> <<>>] :
          query_len \in 0..1, catalog \in Seqs(MatchCandidates, MaxHits),
          k \in 1..MaxHits}

\* _fuzzy_match_authors
FuzzyMatch ==
  /\ fusion.stage = "input"
  /\ fusion.kind = "match"
  /\ fusion' = IF FuzzyRaises(fusion.query_len, fusion.catalog)
               THEN [fusion EXCEPT !.stage = "ZeroDivisionError"]
               ELSE [fusion EXCEPT !.stage = "returned",
                                   !.out = FuzzyMatchAuthors(fusion.catalog, fusion.k)]
  /\ UNCHANGED <<semantic_supported, backend, semantic_enabled, client, text_future,
                 vector_future, queue, pages>>

NextMatch == FuzzyMatch

SpecMatch == InitMatch /\ [][NextMatch]_vars

\* the combined score of candidate a is above 0.2
AboveFuzzyMin(a) == a.match * 10 > FuzzyMin * ScoreUnit

\* the pairs returned keep the contract of _fuzzy_match_authors
MatchContract(out, catalog, k) ==
  /\ Len(out) <= k
  /\ \A i \in DOMAIN out :
       /\ \E n \in DOMAIN catalog : catalog[n] = out[i]
       /\ AboveFuzzyMin(out[i])
       /\ out[i].match <= ScoreUnit
  /\ \A i \in DOMAIN out, j \in DOMAIN out : i < j => out[i].match >= out[j].match
  /\ \A n \in DOMAIN catalog :
       (\A i \in DOMAIN out : out[i] # catalog[n]) =>
         \/ ~catalog[n].name
         \/ ~AboveFuzzyMin(catalog[n])
         \/ \A i \in DOMAIN out : out[i].match >= catalog[n].match

\* C20: _fuzzy_match_authors(query, candidates, k) returns at most k pairs,
\* each candidate from the input, each score in (0.2, 1.0], in non-increasing
\* order; candidates scoring <= 0.2 are absent and no omitted candidate scores
\* higher than a returned one.  (SpecMatch)
C20_FuzzyMatchContract ==
  fusion.stage # "input" =>
    /\ fusion.stage = "returned"
    /\ MatchContract(fusion.out, fusion.catalog, fusion.k)

\* the contract holds whenever the call returns
C20_ContractWhenReturned ==
  fusion.stage = "returned" => MatchContract(fusion.out, fusion.catalog, fusion.k)

\* ---------------------------------------------- the matcher on strings
\* A text is a sequence of characters, each a one-character string; "E'" and
\* "e'" stand for the letter e with an acute accent.
\* exact fractions <<numerator, denominator>>, denominator positive
FLess(x, y) == x[1] * y[2] < y[1] * x[2]

FMax(x, y) == IF FLess(x, y) THEN y ELSE x

FMin(x, y) == IF FLess(y, x) THEN y ELSE x

FAdd(x, y) == <<x[1] * y[2] + y[1] * x[2], x[2] * y[2]>>

FMul(x, y) == <<x[1] * y[1], x[2] * y[2]>>

\* str.lower(), NFD decomposition and removal of the combining marks, for
\* the characters that these change
FoldTable ==
  ("J" :> "j") @@ ("S" :> "s") @@ ("A" :> "a") @@ ("E'" :> "e") @@ ("e'" :> "e")

Fold(c) == IF c \in DOMAIN FoldTable THEN FoldTable[c] ELSE c

\* \s of the regular expressions
Blanks == {" ", "\t"}

\* the characters that are neither \w nor \s
Punctuation == {"-", ".", "?", ","}

\* re.sub(r'[^\w\s]', ' ', ...) on one character
Clean(c) == IF Fold(c) \in Punctuation \cup Blanks THEN " " ELSE Fold(c)

\* re.sub(r'\s+', ' ', ...).strip() on a text whose blanks are spaces
RECURSIVE Collapse(_)
Collapse(t) ==
  IF t = <<>> THEN <<>>
  ELSE LET rest == Collapse(Tail(t))
       IN IF Head(t) # " " THEN <<Head(t)>> \o rest
          ELSE IF rest = <<>> \/ Head(rest) = " " THEN rest
          ELSE <<" ">> \o rest

\* a leading blank left by Collapse is stripped
Strip(t) == IF t # <<>> /\ Head(t) = " " THEN Tail(t) ELSE t

\* SearchService._normalize_text
normalize_text(text) ==
  IF text = <<>> THEN <<>>
  ELSE Strip(Collapse([i \in DOMAIN text |-> Clean(text[i])]))

\* str.split() of a normalised text: its words in order
RECURSIVE Split(_)
Split(t) ==
  IF t = <<>> THEN <<>>
  ELSE LET n == IF \E i \in DOMAIN t : t[i] = " "
                THEN (CHOOSE i \in DOMAIN t :
                        t[i] = " " /\ \A j \in 1..(i - 1) : t[j] # " ") - 1
                ELSE Len(t)
       IN <<SubSeq(t, 1, n)>> \o Split(SubSeq(t, n + 2, Len(t)))

\* "a in b" of two strings
IsSubstring(a, b) ==
  \E i \in 0..(Len(b) - Len(a)) : SubSeq(b, i + 1, i + Len(a)) = a

\* SequenceMatcher.find_longest_match without junk: <<i, j, size>> of the
\* longest common block, the earliest in a and then the earliest in b
LongestMatch(a, b) ==
  LET blocks == {m \in (1..Len(a)) \X (1..Len(b)) \X (1..Min2(Len(a), Len(b))) :
                   /\ m[1] + m[3] - 1 <= Len(a)
                   /\ m[2] + m[3] - 1 <= Len(b)
                   /\ SubSeq(a, m[1], m[1] + m[3] - 1) = SubSeq(b, m[2], m[2] + m[3] - 1)}
  IN IF blocks = {} THEN <<0, 0, 0>>
     ELSE CHOOSE m \in blocks :
            \A o \in blocks :
              \/ m[3] > o[3]
              \/ m[3] = o[3] /\ m[1] < o[1]
              \/ m[3] = o[3] /\ m[1] = o[1] /\ m[2] <= o[2]

\* the total size of SequenceMatcher.get_matching_blocks
RECURSIVE Matches(_, _)
Matches(a, b) ==
  LET m == LongestMatch(a, b)
  IN IF m[3] = 0 THEN 0
     ELSE m[3]
          + Matches(SubSeq(a, 1, m[1] - 1), SubSeq(b, 1, m[2] - 1))
          + Matches(SubSeq(a, m[1] + m[3], Len(a)), SubSeq(b, m[2] + m[3], Len(b)))

\* SequenceMatcher(None, a, b).ratio()
Ratio(a, b) ==
  IF Len(a) + Len(b) = 0 THEN <<1, 1>> ELSE <<2 * Matches(a, b), Len(a) + Len(b)>>

\* strategy 1
exact_match_score(query_normalized, name_normalized) ==
  IF query_normalized = name_normalized THEN <<1, 1>> ELSE <<0, 1>>

\* strategy 3, the credit of one query word: the loop over name_words stops
\* at the first word that gives credit
RECURSIVE WordCredit(_, _)
WordCredit(query_word, name_words) ==
  IF name_words = <<>> THEN <<0, 1>>
  ELSE LET name_word == Head(name_words)
       IN IF Len(query_word) >= 3 /\ IsSubstring(query_word, name_word) THEN <<7, 10>>
          ELSE IF Len(name_word) >= 3 /\ IsSubstring(name_word, query_word)
               THEN <<7, 10>>
          ELSE IF ~FLess(Ratio(query_word, name_word), <<8, 10>>)
               THEN Ratio(query_word, name_word)
          ELSE WordCredit(query_word, Tail(name_words))

RECURSIVE MatchedWords(_, _)
MatchedWords(query_words, name_words) ==
  IF query_words = <<>> THEN <<0, 1>>
  ELSE FAdd(IF \E i \in DOMAIN name_words : name_words[i] = Head(query_words)
            THEN <<1, 1>>
            ELSE WordCredit(Head(query_words), name_words),
            MatchedWords(Tail(query_words), name_words))

word_match_score(query_words, name_words) ==
  IF query_words # <<>> /\ name_words # <<>>
  THEN FMul(MatchedWords(query_words, name_words), <<1, Len(query_words)>>)
  ELSE <<0, 1>>

\* strategy 4 divides by the length of the containing string
SubstringDividesByZero(query_normalized, name_normalized) ==
  IF IsSubstring(query_normalized, name_normalized) THEN Len(name_normalized) = 0
  ELSE IsSubstring(name_normalized, query_normalized) /\ Len(query_normalized) = 0

substring_score(query_normalized, name_normalized) ==
  IF IsSubstring(query_normalized, name_normalized)
  THEN <<9 * Len(query_normalized), 10 * Len(name_normalized)>>
  ELSE IF IsSubstring(name_normalized, query_normalized)
       THEN <<8 * Len(name_normalized), 10 * Len(query_normalized)>>
       ELSE <<0, 1>>

\* strategy 5
initials_score(query_words, name_words) ==
  IF /\ Len(query_words) <= 3
     /\ Len(name_words) >= Len(query_words)
     /\ \A i \in DOMAIN query_words : Head(name_words[i]) = Head(query_words[i])
  THEN <<7, 10>> ELSE <<0, 1>>

\* the combination of the five strategies, before the bonus
Combined(query_normalized, name_normalized) ==
  LET query_words == Split(query_normalized)
      name_words == Split(name_normalized)
  IN FMax(exact_match_score(query_normalized, name_normalized),
     FMax(FMul(Ratio(query_normalized, name_normalized), <<9, 10>>),
     FMax(FMul(word_match_score(query_words, name_words), <<95, 100>>),
     FMax(FMul(substring_score(query_normalized, name_normalized), <<85, 100>>),
          FMul(initials_score(query_words, name_words), <<7, 10>>)))))

\* a variant of the bonus condition that asks for lengths within 5 of each other
BonusAppliesWithin(final_score, name_normalized, query_normalized) ==
  /\ FLess(<<1, 2>>, final_score)
  /\ Len(name_normalized) <= Len(query_normalized) + 5
  /\ Len(query_normalized) <= Len(name_normalized) + 5

\* the condition of the bonus for shorter names
BonusApplies(final_score, name_normalized, query_normalized) ==
  /\ FLess(<<1, 2>>, final_score)
  /\ Len(name_normalized) <= Len(query_normalized) + 5

\* final_score of one candidate
final_score(query_normalized, name_normalized) ==
  LET combined == Combined(query_normalized, name_normalized)
  IN IF BonusApplies(combined, name_normalized, query_normalized)
     THEN FMin(<<1, 1>>, FMul(combined, <<11, 10>>))
     ELSE combined

\* matches.sort(key=lambda x: x[1], reverse=True) on exact fractions
SortedDescByScore(matches) ==
  LET pos(i) == 1 + Cardinality({j \in DOMAIN matches :
                      \/ FLess(matches[i].score, matches[j].score)
                      \/ /\ ~FLess(matches[j].score, matches[i].score)
                         /\ j < i})
  IN [p \in DOMAIN matches |-> matches[CHOOSE i \in DOMAIN matches : pos(i) = p]]

\* the pair (author, final_score) of every candidate that has a full_name
Scored(query, all_authors) ==
  LET named == SelectSeq(all_authors, LAMBDA a : a.full_name # <<>>)
  IN [i \in DOMAIN named |->
       [id |-> named[i].id, full_name |-> named[i].full_name,
        score |-> final_score(normalize_text(query),
                              normalize_text(named[i].full_name))]]

\* a candidate makes strategy 4 divide by zero
MatcherRaises(query, all_authors) ==
  \E i \in DOMAIN all_authors :
    /\ all_authors[i].full_name # <<>>
    /\ SubstringDividesByZero(normalize_text(query),
                              normalize_text(all_authors[i].full_name))

\* _fuzzy_match_authors on strings, for a call that returns
fuzzy_match_authors(query, all_authors, k) ==
  Slice(SortedDescByScore(SelectSeq(Scored(query, all_authors),
                                    LAMBDA m : FLess(<<FuzzyMin, 10>>, m.score))), 0, k)

\* SpecNames: one call of _fuzzy_match_authors on strings
MaxNameLen == 2

RawSample == {"a", "A", "b", "-"}

NameSamples ==
  {<<"J", "o", "h", "n", " ", "S", "m", "i", "t", "h">>,
   <<"x", "y", "z", "1", "2", "3">>,
   <<"j", "o", "h", "n">>,
   <<"j", "o", "h", "n", "a", "t", "h", "a", "n", "s">>,
   <<"J", "o", "h", "n", " ", "S", "m", "i", "t", "h", "s", "o", "n">>,
   <<"j", "o", "h", "n", "-", "s", "m", "i", "t", "h", ".">>}

Texts == Seqs(RawSample, MaxNameLen) \cup NameSamples

Catalogs ==
  {<<[id |-> "a1", full_name |-> n]>> : n \in Texts}
  \cup {<<[id |-> "a1", full_name |-> n], [id |-> "a2", full_name |-> m]>> :
          n \in Texts, m \in NameSamples}

InitNames ==
  /\ InitService(1)
  /\ semantic_enabled = semantic_supported
  /\ ~semantic_supported
  /\ articles_parent = <<>>
  /\ articles_chunks = <<>>
  /\ authors = <<>>
  /\ settings = DefaultSettings
  /\ session = [entry |-> "search_authors", plan |-> ArticlesPlan, k |-> 5,
                page_size |-> NoPage]
  /\ fusion \in
       {[stage |-> "input", kind |-> "names", query |-> query, catalog |-> catalog,
         k |-> 5, out |-> <<>>] : query \in Texts, catalog \in Catalogs}

\* _fuzzy_match_authors
FuzzyMatchNames ==
  /\ fusion.stage = "input"
  /\ fusion.kind = "names"
  /\ fusion' = IF MatcherRaises(fusion.query, fusion.catalog)
               THEN [fusion EXCEPT !.stage = "ZeroDivisionError"]
               ELSE [fusion EXCEPT
                       !.stage = "returned",
                       !.out = fuzzy_match_authors(fusion.query, fusion.catalog,
                                                   fusion.k)]
  /\ UNCHANGED <<semantic_supported, backend, semantic_enabled, client, text_future,
                 vector_future, queue, pages>>

NextNames == FuzzyMatchNames

SpecNames == InitNames /\ [][NextNames]_vars

FEq(x, y) == x[1] * y[2] = y[1] * x[2]

\* candidate a of the catalog is among the pairs returned, with this score
ReturnedWith(a, out, score) ==
  \E i \in DOMAIN out :
    out[i].id = a.id /\ out[i].full_name = a.full_name /\ FEq(out[i].score, score)

Returned(a, out) ==
  \E i \in DOMAIN out : out[i].id = a.id /\ out[i].full_name = a.full_name

\* the normalised texts have a character in common
SharesCharacter(query, full_name) ==
  \E i \in DOMAIN normalize_text(query), j \in DOMAIN normalize_text(full_name) :
    normalize_text(query)[i] = normalize_text(full_name)[j]

\* what the claim says of a call on query and catalog that gave out
ExactAndUnrelated(query, catalog, out) ==
  /\ \A n \in DOMAIN catalog :
       /\ (catalog[n].full_name # <<>>
           /\ normalize_text(catalog[n].full_name) = normalize_text(query)) =>
             ReturnedWith(catalog[n], out, <<1, 1>>)
       /\ ~SharesCharacter(query, catalog[n].full_name) => ~Returned(catalog[n], out)
  /\ (/\ query = <<"J", "o", "h", "n", " ", "S", "m", "i", "t", "h">>
      /\ Len(catalog) = 2
      /\ catalog[1].full_name = query
      /\ catalog[2].full_name = <<"x", "y", "z", "1", "2", "3">>) =>
       /\ Len(out) = 1
       /\ ReturnedWith(catalog[1], out, <<1, 1>>)

\* C21: a candidate whose normalised name equals the normalised query is
\* returned with score exactly 1.0, a candidate that shares nothing with the
\* query is excluded, and "John Smith" against John Smith and xyz123 with
\* k = 5 returns exactly the exact match.  (SpecNames)
C21_ExactMatchAndUnrelated ==
  fusion.stage # "input" =>
    /\ fusion.stage = "returned"
    /\ ExactAndUnrelated(fusion.query, fusion.catalog, fusion.out)

\* the same for the calls whose query has a word after normalisation
C21_WhenQueryHasWords ==
  (fusion.stage # "input" /\ normalize_text(fusion.query) # <<>>) =>
    /\ fusion.stage = "returned"
    /\ ExactAndUnrelated(fusion.query, fusion.catalog, fusion.out)

\* the example of the claim is run
C21_ExampleRun ==
  /\ fusion.stage = "returned"
  /\ fusion.query = <<"J", "o", "h", "n", " ", "S", "m", "i", "t", "h">>
  /\ Len(fusion.catalog) = 2
  /\ fusion.catalog[1].full_name = fusion.query
  /\ fusion.catalog[2].full_name = <<"x", "y", "z", "1", "2", "3">>
  /\ Len(fusion.out) = 1

\* the score a returned pair has when the bonus goes to the pairs that applies
\* selects
ScoreWithBonus(pair, query, applies) ==
  LET combined == Combined(normalize_text(query), normalize_text(pair.full_name))
  IN IF applies THEN FMin(<<1, 1>>, FMul(combined, <<11, 10>>)) ELSE combined

\* C24 as stated: the x1.1 bonus, capped at 1.0, goes to a candidate exactly
\* when its combined score is > 0.5 and the lengths of the normalised name and
\* the normalised query differ by at most 5.  (SpecNames)
C24_BonusWithinFive ==
  fusion.stage = "returned" =>
    \A i \in DOMAIN fusion.out :
      LET q == normalize_text(fusion.query)
          n == normalize_text(fusion.out[i].full_name)
      IN FEq(fusion.out[i].score,
             ScoreWithBonus(fusion.out[i], fusion.query,
               /\ FLess(<<1, 2>>, Combined(q, n))
               /\ Len(n) - Len(q) <= 5
               /\ Len(q) - Len(n) <= 5))

\* C24: the x1.1 bonus, capped at 1.0, goes to a candidate exactly when its
\* combined score is > 0.5 and its normalised name is at most 5 characters
\* longer than the normalised query; a name shorter than the query by any
\* amount gets it.  (SpecNames)
C24_BonusForShorterNames ==
  fusion.stage = "returned" =>
    \A i \in DOMAIN fusion.out :
      LET q == normalize_text(fusion.query)
          n == normalize_text(fusion.out[i].full_name)
      IN FEq(fusion.out[i].score,
             ScoreWithBonus(fusion.out[i], fusion.query,
               FLess(<<1, 2>>, Combined(q, n)) /\ Len(n) - Len(q) <= 5))

\* a name 6 characters shorter than the query is returned with the bonus:
\* 0.7 * 0.95 * 1.1
C24_Witness ==
  /\ fusion.stage = "returned"
  /\ fusion.query = <<"j", "o", "h", "n", "a", "t", "h", "a", "n", "s">>
  /\ \E i \in DOMAIN fusion.out :
       /\ fusion.out[i].full_name = <<"j", "o", "h", "n">>
       /\ FEq(fusion.out[i].score, <<7315, 10000>>)

\* ------------------------------------------------------- freshness scorer
\* Time is counted in half-lives (freshness_halflife_days, 250 days) since
\* 1970-01-01; the dates and "now" of the model are whole numbers of them.
\* A score is 0.0 or 2^(-halvings).
Now == 83

\* 1e12 seconds, the limit above which an epoch is taken for milliseconds
MsThreshold == 46296

\* the timestamps datetime.fromtimestamp accepts: years 1 to 9999
MinTimestamp == 0 - 2876

MaxTimestamp == 11731

\* math.exp returns 0.0 from this many half-lives on
Underflow == 1075

ZeroScore == [zero |-> TRUE, halvings |-> 0]

Halved(n) == [zero |-> FALSE, halvings |-> n]

\* "not business_date"
Falsy(business_date) ==
  \/ business_date.kind = "None"
  \/ business_date.kind = "epoch" /\ business_date.value = 0
  \/ business_date.kind = "str" /\ business_date.text = "empty"

\* the value looked at after the dict branch
Unwrapped(business_date) ==
  IF business_date.kind = "dict"
  THEN IF business_date.key \in {"business_date", "updated_at", "created_at", "date"}
       THEN business_date.inner ELSE business_date
  ELSE business_date

\* bd as a datetime: <<TRUE, date>>, or <<FALSE, 0>> when the function
\* returns 0.0 because nothing parses or the conversion raises
AsDatetime(bd) ==
  IF bd.kind = "epoch"
  THEN LET ts == IF bd.value > MsThreshold THEN bd.value \div 1000 ELSE bd.value
       IN IF ts < MinTimestamp \/ ts > MaxTimestamp THEN <<FALSE, 0>> ELSE <<TRUE, ts>>
  ELSE IF bd.kind = "str"
       THEN IF bd.text = "date" THEN <<TRUE, bd.date>> ELSE <<FALSE, 0>>
  ELSE IF bd.kind = "datetime" THEN <<TRUE, bd.date>>
  ELSE <<FALSE, 0>>

\* a variant of the decay without the clamp of age_days at 0
DecayUnclamped(age) == IF age >= Underflow THEN ZeroScore ELSE Halved(age)

\* exp(-lam * max(age_days, 0)) as a float
Decay(age) ==
  IF Max2(age, 0) >= Underflow THEN ZeroScore ELSE Halved(Max2(age, 0))

\* business_freshness
business_freshness(business_date, now) ==
  IF Falsy(business_date) THEN ZeroScore
  ELSE LET bd == AsDatetime(Unwrapped(business_date))
       IN IF bd[1] THEN Decay(now - bd[2]) ELSE ZeroScore

\* SpecFresh: business_freshness is called on two values
SampleDates == {0, 1, 46, 47, Now - 1, Now, Now + 1, Now - 1074, Now - 1075}

\* the values that denote the date d
DateValues(d) ==
  {[kind |-> "datetime", date |-> d],
   [kind |-> "str", text |-> "date", date |-> d],
   [kind |-> "epoch", value |-> d, date |-> d],
   [kind |-> "epoch", value |-> 1000 * d, date |-> d],
   [kind |-> "dict", key |-> "business_date", date |-> d,
    inner |-> [kind |-> "datetime", date |-> d]],
   [kind |-> "dict", key |-> "date", date |-> d,
    inner |-> [kind |-> "epoch", value |-> d, date |-> d]]}

\* missing and unparseable values
NoDateValues ==
  {[kind |-> "None"],
   [kind |-> "str", text |-> "empty"],
   [kind |-> "str", text |-> "garbage"],
   [kind |-> "list"],
   [kind |-> "dict", key |-> "title", inner |-> [kind |-> "None"]]}

BusinessDates == NoDateValues \cup UNION {DateValues(d) : d \in SampleDates}

InitFresh ==
  /\ InitService(1)
  /\ semantic_enabled = semantic_supported
  /\ ~semantic_supported
  /\ articles_parent = <<>>
  /\ articles_chunks = <<>>
  /\ authors = <<>>
  /\ settings = DefaultSettings
  /\ session = [entry |-> "search_articles", plan |-> ArticlesPlan, k |-> 1,
                page_size |-> NoPage]
  /\ fusion \in
       {[stage |-> "input", kind |-> "fresh", first |-> first, second |-> second,
         scores |-> <<>>] : first \in BusinessDates, second \in BusinessDates}

\* two documents are scored at the same time
Freshness ==
  /\ fusion.stage = "input"
  /\ fusion.kind = "fresh"
  /\ fusion' = [fusion EXCEPT
       !.stage = "scored",
       !.scores = <<business_freshness(fusion.first, Now),
                    business_freshness(fusion.second, Now)>>]
  /\ UNCHANGED <<semantic_supported, backend, semantic_enabled, client, text_future,
                 vector_future, queue, pages>>

NextFresh == Freshness

SpecFresh == InitFresh /\ [][NextFresh]_vars

\* the value denotes a date
DenotesDate(business_date) == business_date \notin NoDateValues

\* score x is at least score y
AtLeast(x, y) == y.zero \/ (~x.zero /\ x.halvings <= y.halvings)

\* what the claim says of one value and its score
FreshnessOf(business_date, score) ==
  IF DenotesDate(business_date)
  THEN /\ ~score.zero
       /\ business_date.date >= Now => score.halvings = 0
  ELSE score.zero

\* C22: for a value that denotes a date the score is in (0, 1], exactly 1.0
\* for a date at or after now, and an older date never scores higher than a
\* newer one; for a missing or unparseable value the score is exactly 0.0.
\* (SpecFresh)
C22_FreshnessBounds ==
  fusion.stage = "scored" =>
    /\ FreshnessOf(fusion.first, fusion.scores[1])
    /\ FreshnessOf(fusion.second, fusion.scores[2])
    /\ (/\ DenotesDate(fusion.first)
        /\ DenotesDate(fusion.second)
        /\ fusion.first.date >= fusion.second.date) =>
         AtLeast(fusion.scores[1], fusion.scores[2])

\* the same for datetimes and date strings that are not older than the
\* float's reach
C22_DatetimesAndStrings ==
  LET plain(v) == \/ ~DenotesDate(v)
                  \/ /\ v.kind \in {"datetime", "str"}
                     /\ Now - v.date < Underflow
  IN (fusion.stage = "scored" /\ plain(fusion.first) /\ plain(fusion.second)) =>
       /\ FreshnessOf(fusion.first, fusion.scores[1])
       /\ FreshnessOf(fusion.second, fusion.scores[2])
       /\ (/\ DenotesDate(fusion.first)
           /\ DenotesDate(fusion.second)
           /\ fusion.first.date >= fusion.second.date) =>
            AtLeast(fusion.scores[1], fusion.scores[2])

\* the lexical scores of the rows of a fuse call
Bm25s(rows) == [i \in DOMAIN rows |-> rows[i].bm25]

\* C23: with a semantic score on some row the normalised lexical score of
\* every row is (bm25 - min) / (max - min) and lies in [0, 1], also for one
\* row or equal lexical scores; without semantic scores it is bm25 / max(bm25)
\* and lies in [0, 1].  (SpecRows)
C23_LexicalScoreNormalised ==
  fusion.stage = "fused" =>
    \A i \in DOMAIN fusion.rows :
      LET nbm == NormBm25(fusion.rows[i], fusion.rows)
          lo == SeqMinOf(Bm25s(fusion.rows))
          hi == SeqMaxOf(Bm25s(fusion.rows))
      IN /\ 0 <= nbm[1]
         /\ nbm[1] <= nbm[2]
         /\ (SemanticAvailable(fusion.rows) /\ lo < hi) =>
              nbm[1] * (hi - lo) = (fusion.rows[i].bm25 - lo) * nbm[2]
         /\ (~SemanticAvailable(fusion.rows) /\ hi > 0) =>
              nbm[1] * hi = fusion.rows[i].bm25 * nbm[2]

\* the same when the lexical scores differ or no row has a semantic score
C23_WhenScoresDiffer ==
  (/\ fusion.stage = "fused"
   /\ fusion.rows # <<>>
   /\ \/ ~SemanticAvailable(fusion.rows)
      \/ SeqMinOf(Bm25s(fusion.rows)) < SeqMaxOf(Bm25s(fusion.rows))) =>
    \A i \in DOMAIN fusion.rows :
      LET nbm == NormBm25(fusion.rows[i], fusion.rows)
      IN 0 <= nbm[1] /\ nbm[1] <= nbm[2]

\* ------------------------------------------------- article preprocessing
\* Texts over the characters a, b, blank, !, ( and the angle brackets.  On
\* such texts html.unescape, the removal of style, script and embedded blocks,
\* of URLs, domains, e-mail addresses and cue words, and the rules about
\* . , ; : - have nothing to match; the other rules are modelled.
PreChars == {"a", "b", " ", "!", "(", "<", ">"}

\* the length of the longest prefix of t whose characters are in S
RECURSIVE RunLen(_, _)
RunLen(t, S) ==
  IF t = <<>> \/ Head(t) \notin S THEN 0 ELSE 1 + RunLen(Tail(t), S)

Drop(t, n) == SubSeq(t, n + 1, Len(t))

\* str.strip()
RECURSIVE StripBlanks(_)
StripBlanks(t) ==
  IF t = <<>> THEN <<>>
  ELSE IF Head(t) = " " THEN StripBlanks(Tail(t))
  ELSE IF t[Len(t)] = " " THEN StripBlanks(SubSeq(t, 1, Len(t) - 1))
  ELSE t

\* re.sub(r'<[^>]+>', '', text)
RECURSIVE RemoveTags(_)
RemoveTags(t) ==
  IF t = <<>> THEN <<>>
  ELSE LET inside == RunLen(Tail(t), PreChars \ {">"})
       IN IF Head(t) = "<" /\ inside >= 1 /\ inside + 2 <= Len(t)
          THEN RemoveTags(Drop(t, inside + 2))
          ELSE <<Head(t)>> \o RemoveTags(Tail(t))

\* strip_html_tags
strip_html_tags(text) == IF text = <<>> THEN <<>> ELSE StripBlanks(RemoveTags(text))

\* remove_special_characters: re.sub(r'[^\w\s.!?,:;\-]', '', text)
remove_special_characters(text) ==
  SelectSeq(text, LAMBDA c : c \notin {"(", "<", ">"})

\* remove_excessive_punctuation: re.sub(r'[!]{2,}', '!', text)
RECURSIVE remove_excessive_punctuation(_)
remove_excessive_punctuation(t) ==
  IF t = <<>> THEN <<>>
  ELSE IF Head(t) = "!"
       THEN <<"!">> \o remove_excessive_punctuation(Drop(t, RunLen(t, {"!"})))
       ELSE <<Head(t)>> \o remove_excessive_punctuation(Tail(t))

\* the characters of [!?:;,\-()#$%^&*@] that a text can still hold
StandaloneMarks == {"!", "("}

\* re.sub(r'\s+[!?:;,\-()#$%^&*@]+\s+', ' ', text)
RECURSIVE BetweenWords(_)
BetweenWords(t) ==
  IF t = <<>> THEN <<>>
  ELSE LET ws == RunLen(t, {" "})
           marks == RunLen(Drop(t, ws), StandaloneMarks)
           after == RunLen(Drop(t, ws + marks), {" "})
       IN IF ws >= 1 /\ marks >= 1 /\ after >= 1
          THEN <<" ">> \o BetweenWords(Drop(t, ws + marks + after))
          ELSE <<Head(t)>> \o BetweenWords(Tail(t))

\* the marks at the end of t
RECURSIVE TrailingMarks(_)
TrailingMarks(t) ==
  IF t = <<>> \/ t[Len(t)] \notin StandaloneMarks THEN 0
  ELSE 1 + TrailingMarks(SubSeq(t, 1, Len(t) - 1))

RECURSIVE TrailingBlanks(_)
TrailingBlanks(t) ==
  IF t = <<>> \/ t[Len(t)] # " " THEN 0
  ELSE 1 + TrailingBlanks(SubSeq(t, 1, Len(t) - 1))

\* re.sub(r'\s+[!?:;,\-()#$%^&*@]+$', '', text)
AtEndWithSpace(t) ==
  LET marks == TrailingMarks(t)
      ws == TrailingBlanks(SubSeq(t, 1, Len(t) - marks))
  IN IF marks >= 1 /\ ws >= 1 THEN SubSeq(t, 1, Len(t) - marks - ws) ELSE t

\* re.sub(r'[!?:;,\-()#$%^&*@]+$', '', text)
AtEnd(t) == SubSeq(t, 1, Len(t) - TrailingMarks(t))

\* re.sub(r'^[!?:;,\-()#$%^&*@]+\s+', '', text)
AtBeginning(t) ==
  LET marks == RunLen(t, StandaloneMarks)
      ws == RunLen(Drop(t, marks), {" "})
  IN IF marks >= 1 /\ ws >= 1 THEN Drop(t, marks + ws) ELSE t

\* re.sub(r'[!]{2,}', '', text)
RECURSIVE MultipleExclamations(_)
MultipleExclamations(t) ==
  IF t = <<>> THEN <<>>
  ELSE IF RunLen(t, {"!"}) >= 2 THEN MultipleExclamations(Drop(t, RunLen(t, {"!"})))
  ELSE IF Head(t) = "!" THEN <<"!">> \o MultipleExclamations(Tail(t))
  ELSE <<Head(t)>> \o MultipleExclamations(Tail(t))

\* normalize_whitespace
normalize_whitespace(text) == Strip(Collapse(text))

\* clean_and_normalize_text with its default flags
clean_and_normalize_text(text) ==
  IF text = <<>> THEN <<>>
  ELSE normalize_whitespace(
         MultipleExclamations(
           AtBeginning(
             AtEnd(
               AtEndWithSpace(
                 BetweenWords(
                   remove_excessive_punctuation(
                     remove_special_characters(strip_html_tags(text)))))))))

RECURSIVE JoinWith(_, _)
JoinWith(components, separator) ==
  IF components = <<>> THEN <<>>
  ELSE IF Len(components) = 1 THEN components[1]
  ELSE components[1] \o separator \o JoinWith(Tail(components), separator)

\* prepare_searchable_text without max_length
prepare_searchable_text(title, abstract, content) ==
  LET cleaned == <<clean_and_normalize_text(title), clean_and_normalize_text(abstract),
                   clean_and_normalize_text(content)>>
      components == SelectSeq(cleaned, LAMBDA comp : StripBlanks(comp) # <<>>)
  IN normalize_whitespace(JoinWith(components, <<" ">>))

\* preprocess_article_text / generate_preprocessed_content
preprocess_article_text(article) ==
  prepare_searchable_text(article.title, article.abstract, article.content)

\* a variant that compares without looking whether current is empty
should_regenerate_by_comparing(current_preprocessed, title, abstract, content) ==
  current_preprocessed #
    preprocess_article_text([title |-> title, abstract |-> abstract, content |-> content])

\* should_regenerate_preprocessed_text
should_regenerate_preprocessed_text(current_preprocessed, title, abstract, content) ==
  IF current_preprocessed = <<>> THEN TRUE
  ELSE current_preprocessed #
         preprocess_article_text([title |-> title, abstract |-> abstract,
                                  content |-> content])

\* SpecRegen: the preprocessed text of one article is stored, a field may be
\* edited, and should_regenerate_preprocessed_text is asked
MaxTextLen == 2

FieldTexts == Seqs(PreChars, MaxTextLen)

FieldSamples ==
  {<<>>, <<"b">>, <<"a", " ", "!", " ", "b">>, <<"<", "b", ">">>, <<"b", "(", "!", "!">>}

Articles == [title : FieldTexts, abstract : {<<>>, <<"b">>}, content : FieldSamples]

InitRegen ==
  /\ InitService(1)
  /\ semantic_enabled = semantic_supported
  /\ ~semantic_supported
  /\ articles_parent = <<>>
  /\ articles_chunks = <<>>
  /\ authors = <<>>
  /\ settings = DefaultSettings
  /\ session = [entry |-> "search_articles", plan |-> ArticlesPlan, k |-> 1,
                page_size |-> NoPage]
  /\ fusion \in
       {[stage |-> "new", kind |-> "regen", article |-> article, current |-> <<>>,
         answer |-> "none"] : article \in Articles}

\* the preprocessed text of the article is generated and stored
StorePreprocessed ==
  /\ fusion.kind = "regen"
  /\ fusion.stage = "new"
  /\ fusion.answer = "none"
  /\ fusion' = [fusion EXCEPT !.stage = "stored",
                              !.current = preprocess_article_text(fusion.article)]
  /\ UNCHANGED <<semantic_supported, backend, semantic_enabled, client, text_future,
                 vector_future, queue, pages>>

\* the title of the article is changed
EditTitle(title) ==
  /\ fusion.kind = "regen"
  /\ fusion.stage = "stored"
  /\ fusion.answer = "none"
  /\ title # fusion.article.title
  /\ fusion' = [fusion EXCEPT !.stage = "edited", !.article.title = title]
  /\ UNCHANGED <<semantic_supported, backend, semantic_enabled, client, text_future,
                 vector_future, queue, pages>>

\* should_regenerate_preprocessed_text(current, title, abstract, content)
AskRegenerate ==
  /\ fusion.kind = "regen"
  /\ fusion.answer = "none"
  /\ fusion' = [fusion EXCEPT !.answer =
       IF should_regenerate_preprocessed_text(fusion.current, fusion.article.title,
            fusion.article.abstract, fusion.article.content)
       THEN "regenerate" ELSE "keep"]
  /\ UNCHANGED <<semantic_supported, backend, semantic_enabled, client, text_future,
                 vector_future, queue, pages>>

NextRegen ==
  \/ StorePreprocessed
  \/ \E title \in FieldSamples : EditTitle(title)
  \/ AskRegenerate

SpecRegen == InitRegen /\ [][NextRegen]_vars

\* C25 as stated: the answer is false exactly when current equals the
\* preprocessed text of the fields, so that asking again after storing it
\* answers false for every article.  (SpecRegen)
C25_FalseExactlyWhenEqual ==
  fusion.answer # "none" =>
    /\ fusion.answer = "keep" <=>
         fusion.current = preprocess_article_text(fusion.article)
    /\ fusion.stage = "stored" => fusion.answer = "keep"

\* C25: the answer is false exactly when current is not empty and equals the
\* preprocessed text of the fields; asking again after storing it answers
\* false for every article whose preprocessed text is not empty, and true for
\* the others; after a change that changes the preprocessed text it answers
\* true.  (SpecRegen)
C25_FalseWhenEqualAndNotEmpty ==
  fusion.answer # "none" =>
    /\ fusion.answer = "keep" <=>
         /\ fusion.current # <<>>
         /\ fusion.current = preprocess_article_text(fusion.article)
    /\ fusion.stage = "stored" =>
         (fusion.answer = "keep" <=> preprocess_article_text(fusion.article) # <<>>)
    /\ (/\ fusion.stage = "edited"
        /\ fusion.current # preprocess_article_text(fusion.article)) =>
         fusion.answer = "regenerate"

\* a stored text that is not empty is kept, here one that differs from the
\* title it was made from
C25_Witness ==
  /\ fusion.stage = "stored"
  /\ fusion.answer = "keep"
  /\ fusion.article.title = <<"<", "a">>
  /\ fusion.current = <<"a", " ", "b", " ", "b">>

\* the pages of a search that have been answered
PagesSeen(s) == {p \in 0..MaxPage : pages[s][p] # <<>>}

\* C26: for a fixed query, k, page_size and an unchanged backend the
\* total_results and total_pages of a paginated search are the same for every
\* page_index, and has_next is true on a page whenever the request for the next
\* page_index returns at least one row.  (SpecSearch)
C26_TotalsSameOnEveryPage ==
  \A s \in SearchTypes :
    \A p \in PagesSeen(s), q \in PagesSeen(s) :
      /\ pages[s][p][1].pagination.total_results = pages[s][q][1].pagination.total_results
      /\ pages[s][p][1].pagination.total_pages = pages[s][q][1].pagination.total_pages
      /\ (q = p + 1 /\ pages[s][q][1].results # <<>>) =>
           pages[s][p][1].pagination.has_next

\* the part of C26 that one response settles: total_pages is total_results
\* divided by page_size, rounded up, and has_next says that the fused list of
\* this request goes on after the page.  (SpecSearch)
C26_TotalsOfOneResponse ==
  \A s \in SearchTypes :
    \A p \in PagesSeen(s) :
      LET page == pages[s][p][1]
      IN /\ page.pagination.total_results = Len(page.full)
         /\ page.pagination.total_pages * page.pagination.page_size
              >= page.pagination.total_results
         /\ (page.pagination.total_pages - 1) * page.pagination.page_size
              < Max2(page.pagination.total_results, 1)
         /\ page.pagination.has_next <=>
              (p + 1) * page.pagination.page_size < Len(page.full)

\* ------------------------------------------------------- app_id filtering
\* An OData filter is modelled as the set of the conditions it joins by
\* "and"; a condition [field, values] holds for a document whose field has one
\* of the values ("id eq 'a' or id eq 'b'" is one condition).  The empty
\* filter string is {}.
Condition(field, values) == [field |-> field, values |-> values]

\* app_id of a request without one
NoApp == "None"

\* _get_app_id_filter
get_app_id_filter(app_id) ==
  IF app_id = NoApp THEN {} ELSE {Condition("app_id", {app_id})}

\* a variant that lets an existing filter replace the app filter
merge_filters_replacing(existing_filter, app_filter) ==
  IF existing_filter = {} THEN app_filter ELSE existing_filter

\* _merge_filters
merge_filters(existing_filter, app_filter) ==
  IF app_filter = {} THEN existing_filter
  ELSE IF existing_filter = {} THEN app_filter
  ELSE existing_filter \cup app_filter

\* the search engine: the documents of an index that a filter lets through
Satisfies(doc, filter) == \A cond \in filter : doc[cond.field] \in cond.values

EngineFilter(index, filter) == SelectSeq(index, LAMBDA doc : Satisfies(doc, filter))

\* the filter of the three text queries and of the chunk query: the planner's
\* filter, if any, merged with the app filter
QueryFilter(search_params, app_id) ==
  IF get_app_id_filter(app_id) # {}
  THEN merge_filters(search_params.filter, get_app_id_filter(app_id))
  ELSE search_params.filter

\* run_text_search
RunTextSearch(index, semantic, search_k, search_params, app_id) ==
  TextRows(EngineSearch(EngineFilter(index, QueryFilter(search_params, app_id)),
                        IF semantic THEN "semantic" ELSE "simple",
                        TextTop(search_k, IF semantic THEN "semantic" ELSE "simple13")))

\* run_vector_search
RunVectorSearch(chunks, search_k, search_params, app_id) ==
  LET hits == EngineFilter(chunks, QueryFilter(search_params, app_id))
  IN SubSeq(hits, 1, Min2(ChunkTop(search_k), Len(hits)))

\* a variant of the fallback that asks for the app as the batched lookup does
PointLookupsInApp(index, document_ids, app_id) ==
  EngineFilter(index, merge_filters({Condition("id", document_ids)},
                                    get_app_id_filter(app_id)))

\* the fallback of _batch_get_documents: client.get_document(doc_id) for every
\* id; an id the index does not hold raises and is skipped
PointLookups(index, document_ids, app_id) ==
  EngineFilter(index, {Condition("id", document_ids)})

\* _batch_get_documents: one filtered search for all ids, or the fallback when
\* that search raises
batch_get_documents(index, document_ids, app_id, batch_ok) ==
  IF document_ids = {} THEN <<>>
  ELSE IF batch_ok
  THEN EngineFilter(index,
         IF get_app_id_filter(app_id) # {}
         THEN merge_filters({Condition("id", document_ids)}, get_app_id_filter(app_id))
         ELSE {Condition("id", document_ids)})
  ELSE PointLookups(index, document_ids, app_id)

\* _get_all_authors
get_all_authors(index, app_id) == EngineFilter(index, get_app_id_filter(app_id))

\* the results of _search_articles_planned for an app
SearchArticlesInApp(semantic, k, search_params, app_id, batch_ok) ==
  LET rows == RunTextSearch(articles_parent, semantic, k, search_params, app_id)
      vec_res == RunVectorSearch(articles_chunks, k, search_params, app_id)
      id_to_row == MergeVector(rows, vec_res)
      batch_parents == batch_get_documents(articles_parent,
                         MissingParentIds(id_to_row), app_id, batch_ok)
  IN Respond(ApplyScoreThreshold(fuse_articles(Hydrate(id_to_row, batch_parents)),
                                 settings),
             "q", "articles", k, NoPage, NoPage).results

\* the results of _search_authors_planned for an app
SearchAuthorsInApp(k, app_id) ==
  AuthorsResponse(get_all_authors(authors, app_id), settings, k, NoPage, NoPage).results

\* SpecApps: one request with or without an app_id and a planner filter over
\* indexes that hold the documents of two apps
Apps == {"A", "B"}

AppDoc(id, app_id, status, score) ==
  [id |-> id, app_id |-> app_id, status |-> status, score |-> score,
   reranker |-> score, business |-> 1]

AppChunk(parent_id, app_id, status, score) ==
  [parent_id |-> parent_id, app_id |-> app_id, status |-> status, score |-> score]

AppAuthor(id, app_id, match) ==
  [id |-> id, app_id |-> app_id, name |-> TRUE, match |-> match]

\* the chunk index carries its own copy of app_id (indexes.py:211); in the
\* second sample the copy of one chunk of d4 is not the app_id of d4
ChunkSamples ==
  {<<AppChunk("d1", "A", "live", 2), AppChunk("d4", "B", "live", 2),
     AppChunk("d3", "A", "draft", 1)>>,
   <<AppChunk("d4", "A", "live", 2), AppChunk("d4", "B", "live", 1),
     AppChunk("d3", "A", "live", 1)>>}

PlannerFilters == {{}, {Condition("status", {"live"})}}

AppRequests ==
  [stage : {"request"}, kind : {"apps"}, entry : {"articles", "authors"},
   app_id : Apps \cup {NoApp}, search_params : [filter : PlannerFilters],
   k : 1..2, batch : {"none"}, results : {<<>>}]

InitApps ==
  /\ InitService(1)
  /\ semantic_enabled = semantic_supported
  /\ articles_parent = <<AppDoc("d1", "A", "live", 2), AppDoc("d2", "B", "live", 2),
                         AppDoc("d3", "A", "draft", 1), AppDoc("d4", "B", "live", 1)>>
  /\ articles_chunks \in ChunkSamples
  /\ authors = <<AppAuthor("a1", "A", 2), AppAuthor("a2", "B", 2),
                 AppAuthor("a3", "A", 1)>>
  /\ settings = DefaultSettings
  /\ session = [entry |-> "search", plan |-> ArticlesPlan, k |-> 1, page_size |-> NoPage]
  /\ fusion \in AppRequests

\* search_articles with app_id
SearchArticlesApp(batch_ok) ==
  /\ fusion.stage = "request"
  /\ fusion.kind = "apps"
  /\ fusion.entry = "articles"
  /\ fusion' = [fusion EXCEPT
       !.stage = "answered",
       !.batch = IF batch_ok THEN "ok" ELSE "failed",
       !.results = SearchArticlesInApp(semantic_enabled, fusion.k,
                     fusion.search_params, fusion.app_id, batch_ok)]
  /\ UNCHANGED <<semantic_supported, backend, semantic_enabled, client, text_future,
                 vector_future, queue, pages>>

\* search_authors with app_id
SearchAuthorsApp ==
  /\ fusion.stage = "request"
  /\ fusion.kind = "apps"
  /\ fusion.entry = "authors"
  /\ fusion' = [fusion EXCEPT
       !.stage = "answered",
       !.results = SearchAuthorsInApp(fusion.k, fusion.app_id)]
  /\ UNCHANGED <<semantic_supported, backend, semantic_enabled, client, text_future,
                 vector_future, queue, pages>>

NextApps ==
  \/ \E batch_ok \in BOOLEAN : SearchArticlesApp(batch_ok)
  \/ SearchAuthorsApp

SpecApps == InitApps /\ [][NextApps]_vars

\* the app a returned document belongs to
AppOf(entry, id) ==
  LET index == IF entry = "authors" THEN authors ELSE articles_parent
  IN index[CHOOSE n \in DOMAIN index : index[n].id = id].app_id

ResultsInApp ==
  \A i \in DOMAIN fusion.results :
    fusion.results[i].doc # "None" =>
      AppOf(fusion.entry, fusion.results[i].doc) = fusion.app_id

\* every chunk carries the app_id of its parent article
ChunksAgree ==
  \A i \in DOMAIN articles_chunks :
    \A n \in DOMAIN articles_parent :
      articles_parent[n].id = articles_chunks[i].parent_id =>
        articles_parent[n].app_id = articles_chunks[i].app_id

\* C27: when app_id is supplied, every document in the returned results
\* belongs to that app_id, on every path, the per-id fallback of the batched
\* hydration included.  (SpecApps)
C27_ResultsBelongToApp ==
  (fusion.stage = "answered" /\ fusion.app_id # NoApp) => ResultsInApp

\* the part of C27 that holds: the documents returned by the text query, the
\* chunk query, the catalog scan and the batched hydration belong to the app,
\* with or without a planner filter, and so do those of the fallback when
\* every chunk carries the app_id of its parent.  (SpecApps)
C27_FilteredPaths ==
  (/\ fusion.stage = "answered"
   /\ fusion.app_id # NoApp
   /\ fusion.batch # "failed" \/ ChunksAgree) => ResultsInApp

\* ------------------------------------------------------------- liveness
\* SpecLive: more article searches than the pool can serve at once (two tasks
\* each), every sub-query may raise.  The executor gives a queued task to a
\* free worker, a backend call returns or raises, and a request thread goes on
\* when the future it waits for has a result: weak fairness on those steps.
\* A caller is free not to call.  The engine finds no hit: what a request
\* answers has no part in whether it answers.
LiveClients == 3

InitLive ==
  /\ InitService(LiveClients)
  /\ ~semantic_supported
  /\ articles_parent = <<>>
  /\ articles_chunks = <<>>
  /\ authors = <<>>
  /\ settings = DefaultSettings
  /\ session = [entry |-> "search_articles", plan |-> ArticlesPlan,
                k |-> 1, page_size |-> NoPage]
  /\ fusion = NoFusion

NextLive ==
  \/ \E c \in DOMAIN client : SubmitArticles(c, NoPage)
  \/ \E c \in DOMAIN client : TextStart(c)
  \/ \E c \in DOMAIN client : TextSimpleOk(c)
  \/ \E c \in DOMAIN client : TextError(c)
  \/ \E c \in DOMAIN client : VectorStart(c)
  \/ \E c \in DOMAIN client : VectorOk(c)
  \/ \E c \in DOMAIN client : VectorError(c, "embedding")
  \/ \E c \in DOMAIN client : JoinText(c)
  \/ \E c \in DOMAIN client : JoinTextRaises(c)
  \/ \E c \in DOMAIN client : JoinVector(c, TRUE)
  \/ \E c \in DOMAIN client : JoinVectorRaises(c)

\* a step of the executor, of a backend call or of a waiting request thread
Progress ==
  \E c \in DOMAIN client :
    \/ TextStart(c)
    \/ TextSimpleOk(c)
    \/ TextError(c)
    \/ VectorStart(c)
    \/ VectorOk(c)
    \/ VectorError(c, "embedding")
    \/ JoinText(c)
    \/ JoinTextRaises(c)
    \/ JoinVector(c, TRUE)
    \/ JoinVectorRaises(c)

Fairness == WF_vars(Progress)

SpecLive == InitLive /\ [][NextLive]_vars /\ Fairness

Waiting(c) == client[c].pc \in {"join_text", "join_vector"}

Finished(future) == future.pc \in {"done", "failed"}

\* no request waits and no task is queued or running
Quiescent ==
  \A c \in 1..LiveClients :
    /\ ~Waiting(c)
    /\ text_future[c].pc = "none" \/ Finished(text_future[c])
    /\ vector_future[c].pc = "none" \/ Finished(vector_future[c])

\* C28: with more article searches than workers, every submitted sub-query
\* task is eventually run to its end and every request eventually returns or
\* fails, also when the text sub-query of a request has failed while its
\* vector sub-query is still queued or running: again and again no request
\* waits and no task is queued or running.  (SpecLive)
C28_EveryRequestReturns == []<>Quiescent

\* a request has failed on its text sub-query, its vector sub-query runs on,
\* every worker is busy and a task waits in the queue
C28_Witness ==
  /\ Busy = max_workers
  /\ queue # <<>>
  /\ \E c \in 1..LiveClients :
       /\ Done(c)
       /\ client[c].resp.status = "error"
       /\ text_future[c].pc = "failed"
       /\ vector_future[c].pc = "running"

\* ------------------------------------------- reactions (backend service)
\* SpecLikes: like, unlike, dislike and undislike requests on one article.
\* Each request is a coroutine; the steps below are its awaits on the user and
\* article containers.  A read returns the stored document, an upsert
\* replaces it whole.  The cache deletions between them change nothing here.
LikeRequests == 2

UserIds == {"u1", "u2"}

ArticleId == "art1"

ReactionOps == {"like", "unlike", "dislike", "undislike"}

UserDoc(liked, disliked) == [liked_articles |-> liked, disliked_articles |-> disliked]

ArticleDoc(likes, dislikes) == [likes |-> likes, dislikes |-> dislikes]

\* the user documents a state of rest can hold: an article is liked, disliked
\* or neither
RestingUsers ==
  {UserDoc({}, {}), UserDoc({ArticleId}, {}), UserDoc({}, {ArticleId})}

Likers(users) == {u \in DOMAIN users : ArticleId \in users[u].liked_articles}

Dislikers(users) == {u \in DOMAIN users : ArticleId \in users[u].disliked_articles}

\* check_article_status: the reaction_type of the response
reaction_type(user, article_id) ==
  IF article_id \in user.liked_articles THEN "like"
  ELSE IF article_id \in user.disliked_articles THEN "dislike"
  ELSE "none"

\* the condition under which the service goes on after check_article_status
Proceeds(op, reaction) ==
  CASE op = "like" -> reaction = "none"
    [] op = "dislike" -> reaction = "none"
    [] op = "unlike" -> reaction = "like"
    [] op = "undislike" -> reaction = "dislike"

\* the document that user_repo.like_article / unlike_article /
\* dislike_article / undislike_article upserts, from the one it has read
Reacted(op, user, article_id) ==
  CASE op = "like" ->
         [user EXCEPT !.liked_articles = @ \cup {article_id}]
    [] op = "unlike" ->
         [user EXCEPT !.liked_articles = @ \ {article_id}]
    [] op = "dislike" ->
         [user EXCEPT !.disliked_articles = @ \cup {article_id}]
    [] op = "undislike" ->
         [user EXCEPT !.disliked_articles = @ \ {article_id}]

\* the document that increment_article_likes / decrement_article_likes /
\* increment_article_dislikes / decrement_article_dislikes upserts, from the
\* one it has read
Counted(op, article) ==
  CASE op = "like" -> [article EXCEPT !.likes = @ + 1]
    [] op = "unlike" -> [article EXCEPT !.likes = @ - 1]
    [] op = "dislike" -> [article EXCEPT !.dislikes = @ + 1]
    [] op = "undislike" -> [article EXCEPT !.dislikes = @ - 1]

NewRequest(user_id, op) ==
  [user_id |-> user_id, op |-> op, pc |-> "check", user |-> UserDoc({}, {}),
   article |-> ArticleDoc(0, 0), written |-> TRUE]

InitLikes ==
  /\ InitService(1)
  /\ semantic_enabled = semantic_supported
  /\ ~semantic_supported
  /\ articles_parent = <<>>
  /\ articles_chunks = <<>>
  /\ authors = <<>>
  /\ settings = DefaultSettings
  /\ session = [entry |-> "search_articles", plan |-> ArticlesPlan, k |-> 1,
                page_size |-> NoPage]
  /\ \E users \in [UserIds -> RestingUsers],
        requests \in [1..LikeRequests -> {NewRequest(u, op) : u \in UserIds,
                                                              op \in ReactionOps}] :
       fusion = [stage |-> "serving", kind |-> "likes", users |-> users,
                 article |-> ArticleDoc(Cardinality(Likers(users)),
                                        Cardinality(Dislikers(users))),
                 requests |-> requests]

Serving(r, pc) ==
  /\ fusion.kind = "likes"
  /\ fusion.requests[r].pc = pc

OthersUnchanged ==
  UNCHANGED <<semantic_supported, backend, semantic_enabled, client, text_future,
              vector_future, queue, pages>>

\* await check_article_status(user_id, article_id, app_id) and the if
CheckArticleStatus(r) ==
  /\ Serving(r, "check")
  /\ LET req == fusion.requests[r]
         reaction == reaction_type(fusion.users[req.user_id], ArticleId)
     IN fusion' = [fusion EXCEPT !.requests[r].pc =
                     IF Proceeds(req.op, reaction) THEN "get_user" ELSE "done"]
  /\ OthersUnchanged

\* user_repo: user = await get_user_by_id(user_id)
GetUser(r) ==
  /\ Serving(r, "get_user")
  /\ fusion' = [fusion EXCEPT
       !.requests[r].pc = "upsert_user",
       !.requests[r].user = fusion.users[fusion.requests[r].user_id]]
  /\ OthersUnchanged

\* user_repo: await users.upsert_item(body=user); an exception is caught and
\* False returned, which the service does not look at
UpsertUser(r, ok) ==
  /\ Serving(r, "upsert_user")
  /\ LET req == fusion.requests[r]
     IN fusion' = [fusion EXCEPT
          !.requests[r].pc = "read_article",
          !.requests[r].written = ok,
          !.users[req.user_id] =
             IF ok THEN Reacted(req.op, req.user, ArticleId) ELSE @]
  /\ OthersUnchanged

\* article_repo: article = await articles.read_item(...)
ReadArticle(r) ==
  /\ Serving(r, "read_article")
  /\ fusion' = [fusion EXCEPT !.requests[r].pc = "upsert_article",
                              !.requests[r].article = fusion.article]
  /\ OthersUnchanged

\* article_repo: await articles.upsert_item(body=article)
UpsertArticle(r) ==
  /\ Serving(r, "upsert_article")
  /\ LET req == fusion.requests[r]
     IN fusion' = [fusion EXCEPT !.requests[r].pc = "done",
                                 !.article = Counted(req.op, req.article)]
  /\ OthersUnchanged

NextLikes ==
  \E r \in 1..LikeRequests :
    \/ CheckArticleStatus(r)
    \/ GetUser(r)
    \/ \E ok \in BOOLEAN : UpsertUser(r, ok)
    \/ ReadArticle(r)
    \/ UpsertArticle(r)

SpecLikes == InitLikes /\ [][NextLikes]_vars

AllServed == \A r \in 1..LikeRequests : fusion.requests[r].pc = "done"

\* C29: after any like, unlike, dislike and undislike requests, also of one
\* user interleaving at their awaits, no article id is in both the
\* liked_articles and the disliked_articles of a user.  (SpecLikes)
C29_NeverLikedAndDisliked ==
  \A u \in UserIds :
    fusion.users[u].liked_articles \cap fusion.users[u].disliked_articles = {}

\* C30: after any like and unlike requests, also concurrent ones of different
\* users and ones whose user write fails, the likes counter of the article is
\* the number of users whose liked_articles holds it and is never negative;
\* the same for dislikes.  (SpecLikes)
C30_CountersMatchLists ==
  /\ fusion.article.likes >= 0
  /\ fusion.article.dislikes >= 0
  /\ AllServed =>
       /\ fusion.article.likes = Cardinality(Likers(fusion.users))
       /\ fusion.article.dislikes = Cardinality(Dislikers(fusion.users))
====
